---- MODULE Spec2Model ----
(***************************************************************************)
(* The notification queue of cadence (models/notification.py) and the      *)
(* delivery worker that drains it (worker/notification_worker.py).         *)
(*                                                                         *)
(* The queue table is a sequence of rows in creation order (ORDER BY       *)
(* created_at ASC is index order; a row's id is its index).  The identity  *)
(* directory (gatekeeper) and the channel transports are external: what a  *)
(* lookup or a send answers is an input of the worker step that asks.      *)
(*                                                                         *)
(* Around the queue: the fan-out that fills it from a task's activity      *)
(* (services/notification_service.py), the purge of old terminal rows      *)
(* (Notification.cleanup_old, with a clock that counts days), and the      *)
(* deduplicated attachment store (services/attachment_service.py,          *)
(* models/attachment.py) used by concurrent request handlers; the task     *)
(* with its status transitions (models/task.py), its activity log          *)
(* (models/activity.py) and the watch routes (blueprints/tasks.py).        *)
(*                                                                         *)
(* A second set of worker steps (RowSend and its neighbours) follows the   *)
(* directory and the channel settings as state, for what a delivery reads  *)
(* at the time it happens; the comment routes and the date-range query of  *)
(* the activity log (Activity.get_in_date_range) complete the task pages.  *)
(***************************************************************************)
EXTENDS Integers, Sequences, FiniteSets

\* ---------------------------------------------------------------- bounds
MaxRows == 2          \* rows ever inserted into notification_queue
BatchSize == 2        \* worker.batch_size ranges over 1..BatchSize
MaxRetriesCeil == 2   \* worker.max_retries ranges over 1..MaxRetriesCeil
MaxCrashes == 1       \* sends per row lost to a crash before the model stops crashing
MaxDays == 2          \* days the clock advances; cleanup_old(days) takes 0..MaxDays
MaxProcs == 2         \* request handlers working on the attachment store at once
MaxAttachments == 3   \* rows ever inserted into attachment
MaxBlobs == 2         \* rows ever inserted into file_blob
MaxWrites == 3        \* UPDATEs of the task row (its updated_at counts them)
MaxActivities == 2    \* rows ever inserted into activity_log
LastSecond == 2       \* the seconds of a day are 0 (00:00:00) .. LastSecond (23:59:59)
RetriesCap == MaxRetriesCeil + 1   \* mark_failed is not called beyond this

Users == {"alice"}
Channels == {"email", "ntfy"}
NULL == "NULL"
Now == "now"
NoObj == [id |-> 0]
NoEvent == [op |-> "none"]
UserIds == {1, 2, 3}
NoUser == 0
Procs == 1..MaxProcs
Idle == [pc |-> "idle"]
NoBlob == 0

VARIABLES
    \* the notification queue and its worker
    queue,        \* notification_queue: Seq of rows
    max_retries,  \* worker.max_retries, read once by run_worker
    batch_size,   \* worker.batch_size, read once by run_worker
    pc,           \* the worker's position: "sleep" | "loop"
    batch,        \* rows fetched by this iteration and not yet processed
    gk_client,    \* the _gk_client singleton is initialised
    gk,           \* what _get_gk() returned to this iteration
    attempts,     \* history: calls of a channel sender, per row
    held,         \* a Notification object held by a caller of the model API
    calls,        \* history: mark_failed calls on held since create returned it
    last,         \* history: the last operation and what it read
    \* the task whose activity is fanned out
    task_owner,   \* task.owner_id
    watchers,     \* the identities in task_watcher for the task
    users,        \* the user table: id -> [is_active, ntfy_topic]
    \* the purge
    clock,        \* days elapsed (datetime.now)
    time,         \* the second of the day (datetime.now)
    removed,      \* ids of the rows deleted from notification_queue
    \* the attachment store
    file_blob,    \* the file_blob table, rows of the one content hash: Seq of
                  \* BOOLEAN, row id = index, FALSE once the row is deleted
    disk,         \* the file at the blob path of that hash exists
    attachment,   \* the attachment table: Seq of [file_blob_id, live]
    proc,         \* each request handler's position and locals
    foreign_keys, \* the connection enforces attachment.file_blob_id -> file_blob
    \* the task and its activity
    task,         \* the row of the task table, without its owner_id
    activity_log, \* the activity_log table: Seq of [action, username,
                  \* details, logged_at]
    \* the identity directory and the settings, as the worker reads them
    directory,    \* the directory's record of the recipient
    app_setting   \* channel -> its server is configured

queue_vars == <<queue, max_retries, batch_size, pc, batch, gk_client, gk, attempts, held, calls, last>>
fanout_vars == <<task_owner, watchers, users>>
purge_vars == <<clock, time, removed>>
store_vars == <<file_blob, disk, attachment, proc, foreign_keys>>
task_vars == <<task, activity_log>>
dir_vars == <<directory, app_setting>>
vars == <<queue_vars, fanout_vars, purge_vars, store_vars, task_vars, dir_vars>>

Ids == 1..Len(queue)

\* A faulty variant of NewRow: the row starts with one retry already counted.
NewRowRetried(username, channel) ==
    [username |-> username, channel |-> channel, status |-> "pending",
     retries |-> 1, sent_at |-> NULL, created_at |-> clock]

\* Notification.create: the inserted row.
NewRow(username, channel) ==
    [username |-> username, channel |-> channel, status |-> "pending",
     retries |-> 0, sent_at |-> NULL, created_at |-> clock]

\* The Notification object built from a row (_from_row / the return of create).
Object(id, row) == [id |-> id, status |-> row.status, retries |-> row.retries]

QueueInit ==
    /\ queue = <<>>
    /\ max_retries \in 1..MaxRetriesCeil
    /\ batch_size \in 1..BatchSize
    /\ pc = "sleep"
    /\ batch = <<>>
    /\ gk_client = FALSE
    /\ gk = FALSE
    /\ attempts = <<>>
    /\ held = NoObj
    /\ calls = -1
    /\ last = NoEvent

\* No task and no user yet.
NoTask ==
    /\ task_owner = NoUser
    /\ watchers = {}
    /\ users = <<>>

PurgeInit ==
    /\ clock = 0
    /\ time = 0
    /\ removed = {}

\* No blob, no file, no attachment, every handler idle.
StoreEmpty ==
    /\ file_blob = <<>>
    /\ disk = FALSE
    /\ attachment = <<>>
    /\ proc = [p \in Procs |-> Idle]

\* No row in the task table, none in activity_log.
NoTaskRow == [status |-> "none"]

TaskEmpty ==
    /\ task = NoTaskRow
    /\ activity_log = <<>>

\* The recipient is enabled in the directory with an address and a topic, both
\* servers are configured.  Specifications that start here do not read the
\* directory: what each lookup answers is an input of the worker's step.
DirectoryFixed ==
    /\ directory = [enabled |-> TRUE, email |-> 1, ntfy |-> 1]
    /\ app_setting = [c \in Channels |-> TRUE]

Init ==
    /\ QueueInit
    /\ NoTask
    /\ PurgeInit
    /\ StoreEmpty
    /\ foreign_keys = FALSE
    /\ TaskEmpty
    /\ DirectoryFixed

\* Notification.create(username, channel, ...): INSERT ... 'pending', 0; the
\* caller keeps the returned object or drops it.
Create(username, channel, keep) ==
    /\ Len(queue) < MaxRows
    /\ queue' = Append(queue, NewRow(username, channel))
    /\ attempts' = Append(attempts, 0)
    /\ held' = IF keep THEN Object(Len(queue) + 1, NewRow(username, channel)) ELSE held
    /\ calls' = IF keep THEN 0 ELSE calls
    /\ last' = [op |-> "create", id |-> Len(queue) + 1]
    /\ UNCHANGED <<max_retries, batch_size, pc, batch, gk_client, gk>>
    /\ UNCHANGED <<fanout_vars, purge_vars, store_vars, task_vars, dir_vars>>

\* ------------------------------------------------------------ the worker

Min(a, b) == IF a < b THEN a ELSE b

\* SELECT ... WHERE status = 'pending' ORDER BY created_at ASC LIMIT batch_size:
\* the fetched rows, each with the retries value it had when fetched.
\* A faulty variant of PendingIds: the WHERE clause is missing.
AllIds ==
    SelectSeq([i \in 1..Len(queue) |-> i], LAMBDA i : i \notin removed)

PendingIds ==
    SelectSeq([i \in 1..Len(queue) |-> i],
              LAMBDA i : i \notin removed /\ queue[i].status = "pending")
\* A faulty variant of FetchPending: ORDER BY created_at DESC.
FetchPendingNewest(limit) ==
    [k \in 1..Min(limit, Len(PendingIds)) |->
        [id |-> PendingIds[Len(PendingIds) + 1 - k],
         retries |-> queue[PendingIds[Len(PendingIds) + 1 - k]].retries]]

FetchPending(limit) ==
    [k \in 1..Min(limit, Len(PendingIds)) |->
        [id |-> PendingIds[k], retries |-> queue[PendingIds[k]].retries]]

\* A faulty variant of WorkerFailUpdate: "<=" for "<", one retry too many.
WorkerFailUpdateLate(retries, maxr) ==
    [retries |-> retries + 1,
     status |-> IF retries + 1 <= maxr THEN "pending" ELSE "failed"]

\* A faulty variant of WorkerFailUpdate: gives up at the first failure.
WorkerFailUpdateGiveUp(retries, maxr) ==
    [retries |-> retries + 1, status |-> "failed"]

\* A faulty variant of WorkerFailUpdate: a failed send marks the row sent.
WorkerFailUpdateSent(retries, maxr) ==
    [retries |-> retries + 1, status |-> "sent"]

\* new_retries / new_status of the worker's "send returned false" branch.
WorkerFailUpdate(retries, maxr) ==
    [retries |-> retries + 1,
     status |-> IF retries + 1 < maxr THEN "pending" ELSE "failed"]

\* A faulty variant of WorkerExceptUpdate: the counter is not incremented.
WorkerExceptUpdateSame(retries, maxr) ==
    [retries |-> retries,
     status |-> IF retries + 1 < maxr THEN "pending" ELSE "failed"]

\* new_retries / new_status of the worker's "except Exception" branch.
WorkerExceptUpdate(retries, maxr) ==
    [retries |-> retries + 1,
     status |-> IF retries + 1 < maxr THEN "pending" ELSE "failed"]

\* UPDATE notification_queue SET status = ?, retries = ? WHERE id = ?
\* (a deleted row matches nothing).
SetStatusRetries(q, id, upd) ==
    IF id \in removed THEN q
    ELSE [q EXCEPT ![id].status = upd.status, ![id].retries = upd.retries]

\* UPDATE notification_queue SET status = ?, sent_at = ? WHERE id = ?
SetStatusSentAt(q, id, status) ==
    IF id \in removed THEN q
    ELSE [q EXCEPT ![id].status = status, ![id].sent_at = Now]

\* What a worker step on the head of the batch read: the row's id, the retries
\* fetched with it, the row and its attempts before the step, the rows after it.
Event(op) ==
    [op |-> op, id |-> Head(batch).id, r |-> Head(batch).retries,
     prev |-> queue[Head(batch).id], att |-> attempts[Head(batch).id],
     rest |-> Tail(batch)]

\* One iteration of run_worker starts: _get_gk() (the singleton, or an attempt
\* to initialise it) and the SELECT of the batch.
WorkerFetch(init_ok) ==
    /\ pc = "sleep"
    /\ gk' = (gk_client \/ init_ok)
    /\ gk_client' = (gk_client \/ init_ok)
    /\ batch' = FetchPending(batch_size)
    /\ pc' = "loop"
    /\ last' = [op |-> "fetch"]
    /\ UNCHANGED <<queue, max_retries, batch_size, attempts, held, calls>>
    /\ UNCHANGED <<fanout_vars, purge_vars, store_vars, task_vars, dir_vars>>

InLoop == pc = "loop" /\ batch # <<>>

\* A faulty variant of WorkerBreak: without a client the row is failed like a
\* row of an unknown recipient.
WorkerBreakFails ==
    /\ InLoop /\ ~gk
    /\ queue' = SetStatusSentAt(queue, Head(batch).id, "failed")
    /\ batch' = Tail(batch)
    /\ last' = Event("break")
    /\ UNCHANGED <<max_retries, batch_size, pc, gk_client, gk, attempts, held, calls>>
    /\ UNCHANGED <<fanout_vars, purge_vars, store_vars, task_vars, dir_vars>>

\* "if not gk: ... break": the iteration ends at the first row.
WorkerBreak ==
    /\ InLoop /\ ~gk
    /\ pc' = "sleep" /\ batch' = <<>>
    /\ last' = Event("break")
    /\ UNCHANGED <<queue, max_retries, batch_size, gk_client, gk, attempts, held, calls>>
    /\ UNCHANGED <<fanout_vars, purge_vars, store_vars, task_vars, dir_vars>>

\* gk.get_user(username) raises: it is called outside the try block, so the
\* exception leaves process_notifications and is caught by run_worker, which
\* logs it and sleeps.
WorkerLookupRaises ==
    /\ InLoop /\ gk
    /\ pc' = "sleep" /\ batch' = <<>>
    /\ last' = Event("lookup_raises")
    /\ UNCHANGED <<queue, max_retries, batch_size, gk_client, gk, attempts, held, calls>>
    /\ UNCHANGED <<fanout_vars, purge_vars, store_vars, task_vars, dir_vars>>

\* "if not gk_user or not gk_user.enabled": failed, sent_at = now; continue.
WorkerSkipUser ==
    /\ InLoop /\ gk
    /\ queue' = SetStatusSentAt(queue, Head(batch).id, "failed")
    /\ batch' = Tail(batch)
    /\ last' = Event("skip_user")
    /\ UNCHANGED <<max_retries, batch_size, pc, gk_client, gk, attempts, held, calls>>
    /\ UNCHANGED <<fanout_vars, purge_vars, store_vars, task_vars, dir_vars>>

\* The recipient is enabled but has no email address (email) or no ntfy topic
\* (ntfy): success stays False and no sender is called.
WorkerNoAddress ==
    /\ InLoop /\ gk
    /\ queue' = SetStatusRetries(queue, Head(batch).id,
                                 WorkerFailUpdate(Head(batch).retries, max_retries))
    /\ batch' = Tail(batch)
    /\ last' = Event("no_address")
    /\ UNCHANGED <<max_retries, batch_size, pc, gk_client, gk, attempts, held, calls>>
    /\ UNCHANGED <<fanout_vars, purge_vars, store_vars, task_vars, dir_vars>>

\* gk.get_user_property(username, "cadence", "ntfy_topic") raises inside the
\* try block (ntfy rows only): the except branch, no sender called.
WorkerPropertyRaises ==
    /\ InLoop /\ gk
    /\ queue[Head(batch).id].channel = "ntfy"
    /\ queue' = SetStatusRetries(queue, Head(batch).id,
                                 WorkerExceptUpdate(Head(batch).retries, max_retries))
    /\ batch' = Tail(batch)
    /\ last' = Event("property_raises")
    /\ UNCHANGED <<max_retries, batch_size, pc, gk_client, gk, attempts, held, calls>>
    /\ UNCHANGED <<fanout_vars, purge_vars, store_vars, task_vars, dir_vars>>

\* The channel sender is called and answers True, False or raises.
WorkerSend(result) ==
    /\ InLoop /\ gk
    /\ attempts' = [attempts EXCEPT ![Head(batch).id] = @ + 1]
    /\ queue' =
         CASE result = "ok" -> SetStatusSentAt(queue, Head(batch).id, "sent")
           [] result = "false" ->
                SetStatusRetries(queue, Head(batch).id,
                                 WorkerFailUpdate(Head(batch).retries, max_retries))
           [] result = "raises" ->
                SetStatusRetries(queue, Head(batch).id,
                                 WorkerExceptUpdate(Head(batch).retries, max_retries))
    /\ batch' = Tail(batch)
    /\ last' = Event("send_" \o result)
    /\ UNCHANGED <<max_retries, batch_size, pc, gk_client, gk, held, calls>>
    /\ UNCHANGED <<fanout_vars, purge_vars, store_vars, task_vars, dir_vars>>

\* The channel sender answered True and the worker process dies before the
\* UPDATE that marks the row sent: the row keeps its values, and the restarted
\* run_worker begins with no gatekeeper client and no batch.
WorkerCrashAfterSend ==
    /\ InLoop /\ gk
    /\ attempts[Head(batch).id] - queue[Head(batch).id].retries < MaxCrashes
    /\ attempts' = [attempts EXCEPT ![Head(batch).id] = @ + 1]
    /\ pc' = "sleep" /\ batch' = <<>>
    /\ gk_client' = FALSE /\ gk' = FALSE
    /\ last' = Event("crash_after_send")
    /\ UNCHANGED <<queue, max_retries, batch_size, held, calls>>
    /\ UNCHANGED <<fanout_vars, purge_vars, store_vars, task_vars, dir_vars>>

\* The for loop is over: return processed; run_worker sleeps poll_interval.
WorkerReturn ==
    /\ pc = "loop" /\ batch = <<>>
    /\ pc' = "sleep"
    /\ last' = [op |-> "return"]
    /\ UNCHANGED <<queue, max_retries, batch_size, batch, gk_client, gk, attempts, held, calls>>
    /\ UNCHANGED <<fanout_vars, purge_vars, store_vars, task_vars, dir_vars>>

SendResults == {"ok", "false", "raises"}

WorkerNext ==
    \/ \E init_ok \in BOOLEAN : WorkerFetch(init_ok)
    \/ WorkerBreak
    \/ WorkerLookupRaises
    \/ WorkerSkipUser
    \/ WorkerNoAddress
    \/ WorkerPropertyRaises
    \/ \E result \in SendResults : WorkerSend(result)
    \/ WorkerReturn

\* ------------------------------------------- the model API on an object

\* Notification.get_by_id(id): a Notification object with the row's values.
GetById(id) ==
    /\ id \in Ids \ removed
    /\ held' = Object(id, queue[id])
    /\ calls' = -1
    /\ last' = [op |-> "get_by_id", id |-> id]
    /\ UNCHANGED <<queue, max_retries, batch_size, pc, batch, gk_client, gk, attempts>>
    /\ UNCHANGED <<fanout_vars, purge_vars, store_vars, task_vars, dir_vars>>

\* Notification.mark_sent(self): UPDATE ... WHERE id = self.id, then the object.
MarkSent ==
    /\ held # NoObj
    /\ queue' = SetStatusSentAt(queue, held.id, "sent")
    /\ held' = [held EXCEPT !.status = "sent"]
    /\ calls' = -1
    /\ last' = [op |-> "mark_sent", id |-> held.id, r |-> held.retries,
                prev |-> queue[held.id]]
    /\ UNCHANGED <<max_retries, batch_size, pc, batch, gk_client, gk, attempts>>
    /\ UNCHANGED <<fanout_vars, purge_vars, store_vars, task_vars, dir_vars>>

\* A faulty variant of MarkFailedUpdate: "<=" for "<".
MarkFailedUpdateLate(retries, maxr) ==
    [retries |-> retries + 1,
     status |-> IF retries + 1 <= maxr THEN "pending" ELSE "failed"]

\* new_retries / new_status of Notification.mark_failed, from self.retries.
MarkFailedUpdate(retries, maxr) ==
    [retries |-> retries + 1,
     status |-> IF retries + 1 < maxr THEN "pending" ELSE "failed"]

\* Notification.mark_failed(self, max_retries): the UPDATE writes what was
\* computed from the object's own retries, then the object takes the values.
MarkFailed ==
    /\ held # NoObj
    /\ held.retries < RetriesCap
    /\ queue' = SetStatusRetries(queue, held.id, MarkFailedUpdate(held.retries, max_retries))
    /\ held' = [held EXCEPT !.retries = MarkFailedUpdate(held.retries, max_retries).retries,
                            !.status = MarkFailedUpdate(held.retries, max_retries).status]
    /\ calls' = IF calls >= 0 THEN calls + 1 ELSE calls
    /\ last' = [op |-> "mark_failed", id |-> held.id, r |-> held.retries,
                prev |-> queue[held.id]]
    /\ UNCHANGED <<max_retries, batch_size, pc, batch, gk_client, gk, attempts>>
    /\ UNCHANGED <<fanout_vars, purge_vars, store_vars, task_vars, dir_vars>>

\* Notification.get_pending(limit): the pending rows, oldest first, at most
\* limit of them.
GetPending(limit) ==
    /\ last' = [op |-> "get_pending", limit |-> limit, result |-> FetchPending(limit)]
    /\ UNCHANGED <<queue, max_retries, batch_size, pc, batch, gk_client, gk, attempts, held, calls>>
    /\ UNCHANGED <<fanout_vars, purge_vars, store_vars, task_vars, dir_vars>>

ApiNext ==
    \/ \E u \in Users, c \in Channels : Create(u, c, TRUE)
    \/ \E id \in 1..MaxRows : GetById(id)
    \/ MarkSent
    \/ MarkFailed

\* Notification.create by a caller that drops the returned object.
EnqueueNext == \E u \in Users, c \in Channels : Create(u, c, FALSE)

\* ------------------------------------- delivery, the directory followed

\* An address that is not set: gk_user.email empty, no ntfy_topic property.
\* An address that is set is named by the number of rows the queue held when
\* the recipient took it, plus one: the rows with a smaller id were enqueued
\* under an earlier address.
NoAddress == 0

\* A faulty variant of Address: the value the row was enqueued under, when the
\* recipient had one then.
AddressAtEnqueue(channel, id) ==
    IF directory[channel] > id THEN id ELSE directory[channel]

\* user_email = gk_user.email (email), user_ntfy_topic =
\* gk.get_user_property(username, "cadence", "ntfy_topic") (ntfy): read from
\* the directory while the row is processed.
Address(channel, id) == directory[channel]

\* An administrator of the directory enables or disables the recipient (an
\* unknown recipient takes the same branch of the worker as a disabled one).
SetEnabled(enabled) ==
    /\ directory.enabled # enabled
    /\ directory' = [directory EXCEPT !.enabled = enabled]
    /\ UNCHANGED app_setting
    /\ UNCHANGED <<queue_vars, fanout_vars, purge_vars, store_vars, task_vars>>

\* The recipient's address (topic) is replaced by one never used before, or
\* removed.
ChangeAddress(channel, remove) ==
    /\ directory[channel] # (IF remove THEN NoAddress ELSE Len(queue) + 1)
    /\ directory' = [directory EXCEPT
                       ![channel] = IF remove THEN NoAddress ELSE Len(queue) + 1]
    /\ UNCHANGED app_setting
    /\ UNCHANGED <<queue_vars, fanout_vars, purge_vars, store_vars, task_vars>>

\* A faulty variant of RowSkipUser: the sender is called all the same.
RowSkipUserSends ==
    /\ ~directory.enabled
    /\ WorkerSend("false")

\* gk.get_user answers None or a disabled user: the skip branch.
RowSkipUser ==
    /\ ~directory.enabled
    /\ WorkerSkipUser

\* gk.get_user answers an enabled user without an address for the channel.
RowNoAddress ==
    /\ directory.enabled
    /\ InLoop
    /\ Address(queue[Head(batch).id].channel, Head(batch).id) = NoAddress
    /\ WorkerNoAddress

\* gk.get_user answers an enabled user and the read of the topic raises.
RowPropertyRaises ==
    /\ directory.enabled
    /\ WorkerPropertyRaises

\* A faulty variant of Configured: every server counts as configured.
ConfiguredAlways(channel) == TRUE

\* send_email_notification: "if not smtp_server or not mail_sender: return
\* False"; send_ntfy: "if not server or not topic: return False".
Configured(channel) == app_setting[channel]

\* gk.get_user answers an enabled user with an address: the channel sender is
\* called with it (to).  A sender whose server is not configured returns False
\* before any transport is opened (or a read of the settings raises).
RowSend(result) ==
    /\ InLoop /\ gk
    /\ directory.enabled
    /\ Address(queue[Head(batch).id].channel, Head(batch).id) # NoAddress
    /\ Configured(queue[Head(batch).id].channel) \/ result # "ok"
    /\ attempts' = [attempts EXCEPT ![Head(batch).id] = @ + 1]
    /\ queue' =
         CASE result = "ok" -> SetStatusSentAt(queue, Head(batch).id, "sent")
           [] result = "false" ->
                SetStatusRetries(queue, Head(batch).id,
                                 WorkerFailUpdate(Head(batch).retries, max_retries))
           [] result = "raises" ->
                SetStatusRetries(queue, Head(batch).id,
                                 WorkerExceptUpdate(Head(batch).retries, max_retries))
    /\ batch' = Tail(batch)
    /\ last' = [op |-> "send_" \o result, id |-> Head(batch).id,
                r |-> Head(batch).retries, prev |-> queue[Head(batch).id],
                att |-> attempts[Head(batch).id], rest |-> Tail(batch),
                to |-> Address(queue[Head(batch).id].channel, Head(batch).id)]
    /\ UNCHANGED <<max_retries, batch_size, pc, gk_client, gk, held, calls>>
    /\ UNCHANGED <<fanout_vars, purge_vars, store_vars, task_vars, dir_vars>>

\* process_notifications with every answer of the directory taken from its
\* record of the recipient.
DeliveryNext ==
    \/ \E init_ok \in BOOLEAN : WorkerFetch(init_ok)
    \/ WorkerBreak
    \/ WorkerLookupRaises
    \/ RowSkipUser
    \/ RowNoAddress
    \/ RowPropertyRaises
    \/ \E result \in SendResults : RowSend(result)
    \/ WorkerReturn

\* -------------------------------------------------------------- the purge

\* A day passes.
Tick ==
    /\ clock < MaxDays
    /\ clock' = clock + 1
    /\ last' = [op |-> "tick"]
    /\ UNCHANGED <<queue, max_retries, batch_size, pc, batch, gk_client, gk, attempts, held, calls>>
    /\ UNCHANGED <<removed, time, fanout_vars, store_vars, task_vars, dir_vars>>

\* A faulty variant of Expired: the status of the row is not looked at.
ExpiredAnyStatus(days) ==
    {i \in Ids \ removed : queue[i].created_at < clock - days}

\* WHERE status IN ('sent', 'failed')
\*   AND datetime(created_at) < datetime(cutoff, '-' || days || ' days')
Expired(days) ==
    {i \in Ids \ removed :
        /\ queue[i].status \in {"sent", "failed"}
        /\ queue[i].created_at < clock - days}

\* Notification.cleanup_old(days): the DELETE, then SELECT changes().
CleanupOld(days) ==
    /\ removed' = removed \cup Expired(days)
    /\ last' = [op |-> "cleanup_old", days |-> days,
                result |-> Cardinality(Expired(days)),
                before |-> removed, rows |-> queue]
    /\ UNCHANGED <<queue, max_retries, batch_size, pc, batch, gk_client, gk, attempts, held, calls>>
    /\ UNCHANGED <<clock, time, fanout_vars, store_vars, task_vars, dir_vars>>

\* ------------------------------------------------------------ the fan-out

\* What the model classes define, by name: the fields of Activity and User,
\* the methods of TaskWatcher, the parameters of Notification.create.
ActivityFields ==
    {"id", "uuid", "task_id", "username", "action", "details", "logged_at",
     "skip_notification"}
UserFields ==
    {"id", "uuid", "email", "display_name", "is_active", "is_admin",
     "ntfy_topic", "created_at", "updated_at"}
TaskWatcherMethods ==
    {"add", "remove", "is_watching", "get_watchers", "get_watcher_usernames",
     "count"}
CreateParams == {"username", "channel", "subject", "body", "body_html", "task_id"}

UserRows == [is_active : BOOLEAN, ntfy_topic : BOOLEAN]

\* A task with its owner, no watcher yet, and a user table in which any of
\* the identities may be missing.
TaskInit ==
    /\ task_owner \in UserIds
    /\ watchers = {}
    /\ users \in UNION {[S -> UserRows] : S \in SUBSET UserIds}

\* TaskWatcher.add(task_id, username): INSERT INTO task_watcher.
TaskWatcherAdd(u) ==
    /\ u \notin watchers
    /\ watchers' = watchers \cup {u}
    /\ last' = [op |-> "watch", id |-> u]
    /\ UNCHANGED <<queue, max_retries, batch_size, pc, batch, gk_client, gk, attempts, held, calls>>
    /\ UNCHANGED <<task_owner, users, purge_vars, store_vars, task_vars, dir_vars>>

\* TaskWatcher.remove(task_id, username): DELETE FROM task_watcher.
TaskWatcherRemove(u) ==
    /\ u \in watchers
    /\ watchers' = watchers \ {u}
    /\ last' = [op |-> "unwatch", id |-> u]
    /\ UNCHANGED <<queue, max_retries, batch_size, pc, batch, gk_client, gk, attempts, held, calls>>
    /\ UNCHANGED <<task_owner, users, purge_vars, store_vars, task_vars, dir_vars>>

\* What a call answers: a value, or the exception that left it.
Returned(v) == [raised |-> "", value |-> v]
Raised(e) == [raised |-> e, value |-> {}]

\* get_recipients(task, actor_id): the owner, then the lookup of the attribute
\* TaskWatcher.get_watcher_user_ids, then the watchers without the actor,
\* each kept if User.get_by_id finds it and it is active.
GetRecipients(owner, ws, actor) ==
    IF "get_watcher_user_ids" \notin TaskWatcherMethods
    THEN Raised("AttributeError")
    ELSE Returned({u \in (({owner} \cup ws) \ {actor}) :
                      u \in DOMAIN users /\ users[u].is_active})

\* A direct call of get_recipients for the task.
GetRecipientsCall(actor) ==
    /\ last' = [op |-> "get_recipients", actor |-> actor,
                raised |-> GetRecipients(task_owner, watchers, actor).raised,
                value |-> GetRecipients(task_owner, watchers, actor).value]
    /\ UNCHANGED <<queue, max_retries, batch_size, pc, batch, gk_client, gk, attempts, held, calls>>
    /\ UNCHANGED <<fanout_vars, purge_vars, store_vars, task_vars, dir_vars>>

Queued(rows) == [raised |-> "", count |-> Len(rows), rows |-> rows]
QueueRaised(e) == [raised |-> e, count |-> 0, rows |-> <<>>]

\* The rows the loop of queue_notifications inserts for one recipient.
RowsFor(u) ==
    (IF users[u].email_notifications THEN <<NewRow(u, "email")>> ELSE <<>>)
        \o (IF users[u].ntfy_topic THEN <<NewRow(u, "ntfy")>> ELSE <<>>)

RECURSIVE RowsForAll(_)
RowsForAll(us) ==
    IF us = {} THEN <<>>
    ELSE LET u == CHOOSE x \in us : \A y \in us : x <= y
         IN  RowsFor(u) \o RowsForAll(us \ {u})

\* A faulty variant of QueueOutcome: the skip flag is not looked at.
QueueOutcomeNoSkip(skip, actor) ==
    IF "user_id" \notin ActivityFields THEN QueueRaised("AttributeError")
    ELSE Queued(<<>>)

\* queue_notifications(activity, task, base_url), statement by statement: the
\* skip flag; activity.user_id; get_recipients; user.email_notifications;
\* Notification.create(user_id=...); the rows inserted and their count.
QueueOutcome(skip, actor) ==
    IF skip THEN Queued(<<>>)
    ELSE IF "user_id" \notin ActivityFields THEN QueueRaised("AttributeError")
    ELSE IF GetRecipients(task_owner, watchers, actor).raised # ""
    THEN QueueRaised(GetRecipients(task_owner, watchers, actor).raised)
    ELSE IF GetRecipients(task_owner, watchers, actor).value = {} THEN Queued(<<>>)
    ELSE IF "email_notifications" \notin UserFields THEN QueueRaised("AttributeError")
    ELSE IF "user_id" \notin CreateParams THEN QueueRaised("TypeError")
    ELSE Queued(RowsForAll(GetRecipients(task_owner, watchers, actor).value))

\* A request handler calls queue_notifications for an activity of the task.
QueueNotifications(skip, actor) ==
    /\ Len(queue) + Len(QueueOutcome(skip, actor).rows) <= MaxRows
    /\ queue' = queue \o QueueOutcome(skip, actor).rows
    /\ attempts' = attempts \o [k \in 1..Len(QueueOutcome(skip, actor).rows) |-> 0]
    /\ last' = [op |-> "queue_notifications", skip |-> skip, actor |-> actor,
                raised |-> QueueOutcome(skip, actor).raised,
                count |-> QueueOutcome(skip, actor).count,
                before |-> queue]
    /\ UNCHANGED <<max_retries, batch_size, pc, batch, gk_client, gk, held, calls>>
    /\ UNCHANGED <<fanout_vars, purge_vars, store_vars, task_vars, dir_vars>>

FanoutNext ==
    \/ \E u \in UserIds : TaskWatcherAdd(u)
    \/ \E u \in UserIds : TaskWatcherRemove(u)
    \/ \E actor \in UserIds \cup {NoUser} : GetRecipientsCall(actor)
    \/ \E skip \in BOOLEAN, actor \in UserIds \cup {NoUser} :
          QueueNotifications(skip, actor)
    \/ EnqueueNext

\* --------------------------------------------------- the attachment store

LiveBlobs == {b \in 1..Len(file_blob) : file_blob[b]}

\* SELECT ... FROM attachment WHERE file_blob_id = ?: the rows counted.
Refs(b) ==
    {i \in 1..Len(attachment) :
        attachment[i].live /\ attachment[i].file_blob_id = b}

SetProc(p, v) == [proc EXCEPT ![p] = v]

\* The uniqueness constraint on file_blob.sha256_hash refuses a second row.
HashTaken == LiveBlobs # {}

\* A faulty variant of GetByHash: the lookup never finds a row.
GetByHashMiss == NoBlob

\* FileBlob.get_by_hash(sha256_hash): the row of that hash, or None.
GetByHash == IF LiveBlobs = {} THEN NoBlob ELSE CHOOSE b \in LiveBlobs : TRUE

\* save_uploaded_file, FileBlob.get_or_create: get_by_hash(sha256_hash);
\* "if existing: return existing, False".
UploadGetByHash(p) ==
    /\ proc[p] = Idle
    /\ Len(attachment) < MaxAttachments
    /\ proc' = SetProc(p, IF GetByHash = NoBlob THEN [pc |-> "create_blob"]
                          ELSE [pc |-> "attach", blob |-> GetByHash,
                                created |-> FALSE])
    /\ last' = [op |-> "get_by_hash", p |-> p]
    /\ UNCHANGED <<queue, max_retries, batch_size, pc, batch, gk_client, gk, attempts, held, calls>>
    /\ UNCHANGED <<file_blob, disk, attachment, foreign_keys, task_vars, fanout_vars, purge_vars, dir_vars>>

\* FileBlob.create: INSERT INTO file_blob; the exception of a refused INSERT
\* leaves save_uploaded_file.
UploadCreateBlob(p) ==
    /\ proc[p].pc = "create_blob"
    /\ IF HashTaken
       THEN /\ proc' = SetProc(p, Idle)
            /\ last' = [op |-> "save_raised", p |-> p, at |-> "FileBlob.create"]
            /\ UNCHANGED file_blob
       ELSE /\ Len(file_blob) < MaxBlobs
            /\ file_blob' = Append(file_blob, TRUE)
            /\ proc' = SetProc(p, [pc |-> "write", blob |-> Len(file_blob) + 1,
                                   created |-> TRUE])
            /\ last' = [op |-> "create_blob", p |-> p]
    /\ UNCHANGED <<queue, max_retries, batch_size, pc, batch, gk_client, gk, attempts, held, calls>>
    /\ UNCHANGED <<disk, attachment, foreign_keys, task_vars, fanout_vars, purge_vars, dir_vars>>

\* "if created": mkdir and blob_path.write_bytes(content).
UploadWriteFile(p) ==
    /\ proc[p].pc = "write"
    /\ disk' = TRUE
    /\ proc' = SetProc(p, [proc[p] EXCEPT !.pc = "attach"])
    /\ last' = [op |-> "write_bytes", p |-> p]
    /\ UNCHANGED <<queue, max_retries, batch_size, pc, batch, gk_client, gk, attempts, held, calls>>
    /\ UNCHANGED <<file_blob, attachment, foreign_keys, task_vars, fanout_vars, purge_vars, dir_vars>>

\* blob_path.write_bytes(content) raises (disk full, no permission): the
\* exception leaves save_uploaded_file after the INSERT of the blob row, which
\* no transaction takes back.
UploadWriteRaises(p) ==
    /\ proc[p].pc = "write"
    /\ proc' = SetProc(p, Idle)
    /\ last' = [op |-> "save_raised", p |-> p, at |-> "write_bytes"]
    /\ UNCHANGED <<queue, max_retries, batch_size, pc, batch, gk_client, gk, attempts, held, calls>>
    /\ UNCHANGED <<file_blob, disk, attachment, foreign_keys, task_vars, fanout_vars, purge_vars, dir_vars>>

\* Attachment.create(file_blob_id = blob.id): INSERT INTO attachment, refused
\* when foreign keys are enforced and the blob row is gone.
UploadAttach(p) ==
    /\ proc[p].pc = "attach"
    /\ Len(attachment) < MaxAttachments
    /\ IF foreign_keys /\ proc[p].blob \notin LiveBlobs
       THEN /\ last' = [op |-> "save_raised", p |-> p, at |-> "Attachment.create"]
            /\ UNCHANGED attachment
       ELSE /\ attachment' = Append(attachment,
                                    [file_blob_id |-> proc[p].blob, live |-> TRUE])
            /\ last' = [op |-> "save_uploaded_file", att |-> Len(attachment) + 1,
                        blob |-> proc[p].blob, created |-> proc[p].created]
    /\ proc' = SetProc(p, Idle)
    /\ UNCHANGED <<queue, max_retries, batch_size, pc, batch, gk_client, gk, attempts, held, calls>>
    /\ UNCHANGED <<file_blob, disk, foreign_keys, task_vars, fanout_vars, purge_vars, dir_vars>>

\* delete_attachment(attachment) on an attachment the handler has fetched:
\* blob = attachment.get_blob().
DeleteGetBlob(p, a) ==
    /\ proc[p] = Idle
    /\ a \in 1..Len(attachment) /\ attachment[a].live
    /\ proc' = SetProc(p, [pc |-> "delete_row", att |-> a,
                           blob |-> IF attachment[a].file_blob_id \in LiveBlobs
                                    THEN attachment[a].file_blob_id ELSE NoBlob])
    /\ last' = [op |-> "get_blob", p |-> p]
    /\ UNCHANGED <<queue, max_retries, batch_size, pc, batch, gk_client, gk, attempts, held, calls>>
    /\ UNCHANGED <<file_blob, disk, attachment, foreign_keys, task_vars, fanout_vars, purge_vars, dir_vars>>

\* attachment.delete(): DELETE FROM attachment WHERE id = ?; "if blob:".
DeleteRow(p) ==
    /\ proc[p].pc = "delete_row"
    /\ attachment' = [attachment EXCEPT ![proc[p].att].live = FALSE]
    /\ IF proc[p].blob = NoBlob
       THEN /\ proc' = SetProc(p, Idle)
            /\ last' = [op |-> "delete_attachment", att |-> proc[p].att, blob |-> NoBlob]
       ELSE /\ proc' = SetProc(p, [proc[p] EXCEPT !.pc = "count"])
            /\ last' = [op |-> "delete_row", p |-> p]
    /\ UNCHANGED <<queue, max_retries, batch_size, pc, batch, gk_client, gk, attempts, held, calls>>
    /\ UNCHANGED <<file_blob, disk, foreign_keys, task_vars, fanout_vars, purge_vars, dir_vars>>

\* A faulty variant of Unreferenced: the count is not looked at.
UnreferencedAlways(b) == TRUE

\* A faulty variant of Unreferenced: the count is never 0.
UnreferencedNever(b) == FALSE

\* SELECT COUNT(*) FROM attachment WHERE file_blob_id = ?; "if count == 0".
Unreferenced(b) == Cardinality(Refs(b)) = 0

DeleteCount(p) ==
    /\ proc[p].pc = "count"
    /\ IF Unreferenced(proc[p].blob)
       THEN /\ proc' = SetProc(p, [proc[p] EXCEPT !.pc = "exists"])
            /\ last' = [op |-> "count", p |-> p]
       ELSE /\ proc' = SetProc(p, Idle)
            /\ last' = [op |-> "delete_attachment", att |-> proc[p].att,
                        blob |-> proc[p].blob]
    /\ UNCHANGED <<queue, max_retries, batch_size, pc, batch, gk_client, gk, attempts, held, calls>>
    /\ UNCHANGED <<file_blob, disk, attachment, foreign_keys, task_vars, fanout_vars, purge_vars, dir_vars>>

\* "if blob_path.exists():"
DeleteExists(p) ==
    /\ proc[p].pc = "exists"
    /\ proc' = SetProc(p, [proc[p] EXCEPT !.pc = IF disk THEN "unlink" ELSE "delete_blob"])
    /\ last' = [op |-> "exists", p |-> p]
    /\ UNCHANGED <<queue, max_retries, batch_size, pc, batch, gk_client, gk, attempts, held, calls>>
    /\ UNCHANGED <<file_blob, disk, attachment, foreign_keys, task_vars, fanout_vars, purge_vars, dir_vars>>

\* blob_path.unlink(): FileNotFoundError, which leaves delete_attachment,
\* when the file has gone since exists().
DeleteUnlink(p) ==
    /\ proc[p].pc = "unlink"
    /\ disk' = FALSE
    /\ IF disk
       THEN /\ proc' = SetProc(p, [proc[p] EXCEPT !.pc = "delete_blob"])
            /\ last' = [op |-> "unlink", p |-> p]
       ELSE /\ proc' = SetProc(p, Idle)
            /\ last' = [op |-> "delete_raised", p |-> p]
    /\ UNCHANGED <<queue, max_retries, batch_size, pc, batch, gk_client, gk, attempts, held, calls>>
    /\ UNCHANGED <<file_blob, attachment, foreign_keys, task_vars, fanout_vars, purge_vars, dir_vars>>

\* DELETE FROM file_blob WHERE id = ?, refused when foreign keys are enforced
\* and an attachment references the row.
DeleteBlobRow(p) ==
    /\ proc[p].pc = "delete_blob"
    /\ IF foreign_keys /\ Refs(proc[p].blob) # {}
       THEN /\ last' = [op |-> "delete_raised", p |-> p]
            /\ UNCHANGED file_blob
       ELSE /\ file_blob' = [file_blob EXCEPT ![proc[p].blob] = FALSE]
            /\ last' = [op |-> "delete_attachment", att |-> proc[p].att,
                        blob |-> proc[p].blob]
    /\ proc' = SetProc(p, Idle)
    /\ UNCHANGED <<queue, max_retries, batch_size, pc, batch, gk_client, gk, attempts, held, calls>>
    /\ UNCHANGED <<disk, attachment, foreign_keys, task_vars, fanout_vars, purge_vars, dir_vars>>

\* download_attachment on an attachment the handler has fetched:
\* blob = attachment.get_blob(); "if blob is None: abort(404)".
DownloadGetBlob(p, a) ==
    /\ proc[p] = Idle
    /\ a \in 1..Len(attachment) /\ attachment[a].live
    /\ IF attachment[a].file_blob_id \in LiveBlobs
       THEN /\ proc' = SetProc(p, [pc |-> "read_exists", att |-> a,
                                   blob |-> attachment[a].file_blob_id])
            /\ last' = [op |-> "download_get_blob", p |-> p]
       ELSE /\ proc' = SetProc(p, Idle)
            /\ last' = [op |-> "download_attachment", p |-> p, att |-> a,
                        result |-> "404"]
    /\ UNCHANGED <<queue, max_retries, batch_size, pc, batch, gk_client, gk, attempts, held, calls>>
    /\ UNCHANGED <<file_blob, disk, attachment, foreign_keys, task_vars, fanout_vars, purge_vars, dir_vars>>

\* get_blob_content: "if blob_path.exists():", else return None, which the
\* route answers with abort(404).
GetBlobContentExists(p) ==
    /\ proc[p].pc = "read_exists"
    /\ IF disk
       THEN /\ proc' = SetProc(p, [proc[p] EXCEPT !.pc = "read_bytes"])
            /\ last' = [op |-> "read_exists", p |-> p]
       ELSE /\ proc' = SetProc(p, Idle)
            /\ last' = [op |-> "download_attachment", p |-> p, att |-> proc[p].att,
                        result |-> "404"]
    /\ UNCHANGED <<queue, max_retries, batch_size, pc, batch, gk_client, gk, attempts, held, calls>>
    /\ UNCHANGED <<file_blob, disk, attachment, foreign_keys, task_vars, fanout_vars, purge_vars, dir_vars>>

\* get_blob_content: return blob_path.read_bytes(), FileNotFoundError when
\* the file has gone since exists(); the route returns the Response.
GetBlobContentRead(p) ==
    /\ proc[p].pc = "read_bytes"
    /\ proc' = SetProc(p, Idle)
    /\ last' = [op |-> "download_attachment", p |-> p, att |-> proc[p].att,
                result |-> IF disk THEN "200" ELSE "FileNotFoundError"]
    /\ UNCHANGED <<queue, max_retries, batch_size, pc, batch, gk_client, gk, attempts, held, calls>>
    /\ UNCHANGED <<file_blob, disk, attachment, foreign_keys, task_vars, fanout_vars, purge_vars, dir_vars>>

\* One step of the request handler p that downloads.
DownloadStep(p) ==
    \/ \E a \in 1..MaxAttachments : DownloadGetBlob(p, a)
    \/ GetBlobContentExists(p)
    \/ GetBlobContentRead(p)

\* One step of the request handler p that uploads, the write of the file
\* succeeding or not.
UploadStep(p) ==
    \/ UploadGetByHash(p)
    \/ UploadCreateBlob(p)
    \/ UploadWriteFile(p)
    \/ UploadWriteRaises(p)
    \/ UploadAttach(p)

\* The handler p is inside save_uploaded_file.
Uploading(p) == proc[p] # Idle /\ proc[p].pc \in {"create_blob", "write", "attach"}

\* One step of an upload that no other handler runs next to.
UploadAloneStep(p) ==
    /\ \A q \in Procs \ {p} : proc[q] = Idle
    /\ \/ UploadGetByHash(p)
       \/ UploadCreateBlob(p)
       \/ UploadWriteFile(p)
       \/ UploadAttach(p)

\* One step of delete_attachment in the handler p, no upload running.
DeleteStep(p) ==
    /\ \A q \in Procs : ~Uploading(q)
    /\ \/ \E a \in 1..MaxAttachments : DeleteGetBlob(p, a)
       \/ DeleteRow(p)
       \/ DeleteCount(p)
       \/ DeleteExists(p)
       \/ DeleteUnlink(p)
       \/ DeleteBlobRow(p)

\* One step of the request handler p.
StoreStep(p) ==
    \/ UploadGetByHash(p)
    \/ UploadCreateBlob(p)
    \/ UploadWriteFile(p)
    \/ UploadAttach(p)
    \/ \E a \in 1..MaxAttachments : DeleteGetBlob(p, a)
    \/ DeleteRow(p)
    \/ DeleteCount(p)
    \/ DeleteExists(p)
    \/ DeleteUnlink(p)
    \/ DeleteBlobRow(p)

\* ------------------------------------------------- the task and its status

TaskFields == {"id", "uuid", "title", "description", "status", "owner_id",
               "due_date", "is_private", "created_at", "updated_at"}

Titles == {"t1", "t2"}
DueDates == {"", "d1"}

\* A keyword argument: <<>> is None, <<v>> the value v.
Opt(S) == {<<>>} \cup {<<v>> : v \in S}

VALID_STATUSES == {"new", "in_progress", "on_hold", "complete"}

\* What a request can post as status: request.form.get("status", "").
Targets == VALID_STATUSES \cup {"archived", ""}

\* A faulty variant of STATUS_TRANSITIONS: a complete task is not reopened.
StatusTransitionsNoReopen ==
    [new |-> {"in_progress", "on_hold", "complete"},
     in_progress |-> {"on_hold", "complete"},
     on_hold |-> {"in_progress", "complete"},
     complete |-> {}]

STATUS_TRANSITIONS ==
    [new |-> {"in_progress", "on_hold", "complete"},
     in_progress |-> {"on_hold", "complete"},
     on_hold |-> {"in_progress", "complete"},
     complete |-> {"in_progress"}]

\* dict.get(key, default)
Get(d, key, default) == IF key \in DOMAIN d THEN d[key] ELSE default

\* A faulty variant of CanTransitionTo: the table is not looked at.
CanTransitionToAnyOther(status, new_status) ==
    new_status \in VALID_STATUSES /\ new_status # status

\* Task.can_transition_to(new_status) on a task of the given status.
CanTransitionTo(status, new_status) ==
    IF new_status \notin VALID_STATUSES THEN FALSE
    ELSE IF new_status = status THEN FALSE
    ELSE new_status \in Get(STATUS_TRANSITIONS, status, {})

\* A faulty variant of SetStatusAllowed: only the self-transition is refused.
SetStatusAllowedAnyOther(status, new_status) ==
    new_status \in VALID_STATUSES /\ new_status # status

\* Task.set_status: the three early returns before the UPDATE.
SetStatusAllowed(status, new_status) ==
    IF new_status \notin VALID_STATUSES THEN FALSE
    ELSE IF new_status = status THEN FALSE
    ELSE LET allowed == Get(STATUS_TRANSITIONS, status, {})
         IN  IF new_status \notin allowed THEN FALSE ELSE TRUE

\* A faulty variant of NewTask: the row starts in a status of its own.
NewTaskDraft(title, due_date, is_private) ==
    [title |-> title, status |-> "draft", due_date |-> due_date,
     is_private |-> is_private, updated_at |-> 0]

\* Task.create: INSERT INTO task ... VALUES (?, ?, ?, 'new', ...); created_at
\* and updated_at are the same now.
NewTask(title, due_date, is_private) ==
    [title |-> title, status |-> "new", due_date |-> due_date,
     is_private |-> is_private, updated_at |-> 0]

\* Task.create(title, owner_id, due_date, is_private); one task is followed.
TaskCreate(title, owner_id, due_date, is_private) ==
    /\ task = NoTaskRow
    /\ task' = NewTask(title, due_date, is_private)
    /\ task_owner' = owner_id
    /\ last' = [op |-> "Task.create"]
    /\ UNCHANGED <<queue, max_retries, batch_size, pc, batch, gk_client, gk, attempts, held, calls>>
    /\ UNCHANGED <<watchers, users, purge_vars, store_vars, activity_log, dir_vars>>

\* Task.update: the fields that are given and differ, in the order of the
\* code; description is handled as title is.
Changes(t, owner, title, due_date, is_private, owner_id) ==
       (IF title # <<>> /\ title[1] # t.title THEN <<"title">> ELSE <<>>)
    \o (IF due_date # <<>> /\ due_date[1] # t.due_date THEN <<"due_date">> ELSE <<>>)
    \o (IF is_private # <<>> /\ is_private[1] # t.is_private
        THEN <<"is_private">> ELSE <<>>)
    \o (IF owner_id # <<>> /\ owner_id[1] # owner THEN <<"owner_id">> ELSE <<>>)

Has(seq, x) == \E i \in 1..Len(seq) : seq[i] = x

\* Task.update(title, due_date, is_private, owner_id): one UPDATE of the
\* changed columns and updated_at, none when nothing changed; an empty
\* due_date is stored as NULL.
TaskUpdate(title, due_date, is_private, owner_id) ==
    /\ task # NoTaskRow
    /\ task.updated_at < MaxWrites
    /\ LET updates == Changes(task, task_owner, title, due_date, is_private, owner_id)
       IN  /\ task' = [task EXCEPT
                         !.title = IF Has(updates, "title") THEN title[1] ELSE @,
                         !.due_date = IF Has(updates, "due_date")
                                      THEN (IF due_date[1] = "" THEN NULL ELSE due_date[1])
                                      ELSE @,
                         !.is_private = IF Has(updates, "is_private")
                                        THEN is_private[1] ELSE @,
                         !.updated_at = IF updates # <<>> THEN @ + 1 ELSE @]
           /\ task_owner' = IF Has(updates, "owner_id") THEN owner_id[1] ELSE task_owner
           /\ last' = [op |-> "Task.update", prev |-> task, updates |-> updates]
    /\ UNCHANGED <<queue, max_retries, batch_size, pc, batch, gk_client, gk, attempts, held, calls>>
    /\ UNCHANGED <<watchers, users, purge_vars, store_vars, activity_log, dir_vars>>

\* Task.set_status(new_status): UPDATE task SET status = ?, updated_at = ?
\* and True, or False with nothing written.
TaskSetStatus(new_status) ==
    /\ task # NoTaskRow
    /\ task.updated_at < MaxWrites
    /\ IF SetStatusAllowed(task.status, new_status)
       THEN /\ task' = [task EXCEPT !.status = new_status, !.updated_at = @ + 1]
            /\ last' = [op |-> "set_status", prev |-> task, new_status |-> new_status,
                        result |-> TRUE]
       ELSE /\ task' = task
            /\ last' = [op |-> "set_status", prev |-> task, new_status |-> new_status,
                        result |-> FALSE]
    /\ UNCHANGED <<queue, max_retries, batch_size, pc, batch, gk_client, gk, attempts, held, calls>>
    /\ UNCHANGED <<fanout_vars, purge_vars, store_vars, activity_log, dir_vars>>

\* task.can_transition_to(new_status), as a caller sees it.
TaskCanTransitionTo(new_status) ==
    /\ task # NoTaskRow
    /\ last' = [op |-> "can_transition_to", from |-> task.status,
                to |-> new_status,
                result |-> CanTransitionTo(task.status, new_status)]
    /\ UNCHANGED <<queue, max_retries, batch_size, pc, batch, gk_client, gk, attempts, held, calls>>
    /\ UNCHANGED <<fanout_vars, purge_vars, store_vars, task_vars, dir_vars>>

\* --------------------------------------------------------- the activity log

Comments == {"c1", "c2"}
Contents == {"a", "b"}

\* A dict: its keys in insertion order and the value of each key.
Dict(keys, val) == [keys |-> keys, val |-> val]
EmptyDict == Dict(<<>>, <<>>)

\* details={"comment_uuid": comment.uuid, "content": content}
CommentDetails(c, x) ==
    Dict(<<"comment_uuid", "content">>, [comment_uuid |-> c, content |-> x])

\* details={"old": old_status, "new": new_status}
StatusDetails(old, new) == Dict(<<"old", "new">>, [old |-> old, new |-> new])

\* json.dumps of a dict: the text of an object, its members in key order.
\* The text is the sequence of its <<key, value>> members; the column value
\* NULL is the empty sequence (both sides of the code read "no details" for
\* NULL and for an empty dict).
JsonDumps(d) == [i \in 1..Len(d.keys) |-> <<d.keys[i], d.val[d.keys[i]]>>]

RECURSIVE Ascending(_)
Ascending(S) ==
    IF S = {} THEN <<>>
    ELSE LET x == CHOOSE y \in S : \A z \in S : y <= z
         IN  <<x>> \o Ascending(S \ {x})

\* json.loads of an object: a key keeps the place of its first member and
\* the value of its last.
JsonLoads(text) ==
    LET first == {i \in 1..Len(text) : \A j \in 1..(i - 1) : text[j][1] # text[i][1]}
        order == Ascending(first)
        names == {text[i][1] : i \in 1..Len(text)}
        lastOf(k) == CHOOSE i \in 1..Len(text) :
                         /\ text[i][1] = k
                         /\ \A j \in (i + 1)..Len(text) : text[j][1] # k
    IN  Dict([n \in 1..Len(order) |-> text[order[n]][1]],
             [k \in names |-> text[lastOf(k)][2]])

\* A faulty variant of DictSet: the other keys are dropped.
DictSetAlone(d, k, v) == Dict(<<k>>, [x \in {k} |-> v])

\* d[k] = v
DictSet(d, k, v) ==
    Dict(IF Has(d.keys, k) THEN d.keys ELSE Append(d.keys, k),
         [x \in (DOMAIN d.val) \cup {k} |-> IF x = k THEN v ELSE d.val[x]])

\* json_extract(details, '$.key'): NULL for NULL details or a missing key.
JsonExtract(text, k) ==
    IF Has(JsonLoads(text).keys, k) THEN JsonLoads(text).val[k] ELSE NULL

\* The text of a timestamp, as far as comparing texts goes: the date, the
\* time of day (both of fixed width, so that they compare as the numbers do),
\* then what follows the seconds.  datetime.now(UTC).isoformat() ends with
\* the microseconds, if any, and "+00:00".
IsoFormat(day, second) == <<day, second, 0>>
IsoFormatNow == IsoFormat(clock, time)

\* A second passes; after the last second of a day the next day begins.
Second ==
    /\ time < LastSecond \/ clock < MaxDays
    /\ time' = IF time < LastSecond THEN time + 1 ELSE 0
    /\ clock' = IF time < LastSecond THEN clock ELSE clock + 1
    /\ last' = [op |-> "second"]
    /\ UNCHANGED <<queue, max_retries, batch_size, pc, batch, gk_client, gk, attempts, held, calls>>
    /\ UNCHANGED <<removed, fanout_vars, store_vars, task_vars, dir_vars>>

\* a <= b for two texts, as SQLite compares TEXT values: by the first place
\* where they differ, a text being smaller than every text it is a proper
\* prefix of.
RECURSIVE TextLeq(_, _)
TextLeq(a, b) ==
    IF a = <<>> THEN TRUE
    ELSE IF b = <<>> THEN FALSE
    ELSE IF Head(a) # Head(b) THEN Head(a) < Head(b)
    ELSE TextLeq(Tail(a), Tail(b))

\* Activity.log(task_id, action, username, details): INSERT INTO
\* activity_log with details_json = json.dumps(details) if details else
\* None.  add_comment logs one commented activity per comment (uuid4).
ActivityLog(action, username, details) ==
    /\ Len(activity_log) < MaxActivities
    /\ action = "commented"
          => \A i \in 1..Len(activity_log) :
                 activity_log[i].action = "commented"
                     => JsonExtract(activity_log[i].details, "comment_uuid")
                            # details.val["comment_uuid"]
    /\ activity_log' = Append(activity_log,
                              [action |-> action, username |-> username,
                               details |-> IF details.keys # <<>>
                                           THEN JsonDumps(details) ELSE <<>>,
                               logged_at |-> IsoFormatNow])
    /\ last' = [op |-> "Activity.log", id |-> Len(activity_log) + 1]
    /\ UNCHANGED <<queue, max_retries, batch_size, pc, batch, gk_client, gk, attempts, held, calls>>
    /\ UNCHANGED <<fanout_vars, purge_vars, store_vars, task, dir_vars>>

\* The rows of SELECT id, details FROM activity_log WHERE action =
\* 'commented' AND json_extract(details, '$.comment_uuid') = ?
CommentedRows(comment_uuid) ==
    {i \in 1..Len(activity_log) :
        /\ activity_log[i].action = "commented"
        /\ JsonExtract(activity_log[i].details, "comment_uuid") = comment_uuid}

\* Activity.update_comment_content(comment_uuid, new_content): fetchone();
\* False without a row; else details["content"] = new_content and UPDATE
\* activity_log SET details = json.dumps(details) WHERE id = ?
UpdateCommentContent(comment_uuid, new_content) ==
    /\ IF CommentedRows(comment_uuid) = {}
       THEN /\ activity_log' = activity_log
            /\ last' = [op |-> "update_comment_content", comment_uuid |-> comment_uuid,
                        content |-> new_content, before |-> activity_log,
                        id |-> 0, result |-> FALSE]
       ELSE LET id == Ascending(CommentedRows(comment_uuid))[1]
                details == DictSet(JsonLoads(activity_log[id].details),
                                   "content", new_content)
            IN  /\ activity_log' = [activity_log EXCEPT
                                       ![id].details = JsonDumps(details)]
                /\ last' = [op |-> "update_comment_content",
                            comment_uuid |-> comment_uuid,
                            content |-> new_content, before |-> activity_log,
                            id |-> id, result |-> TRUE]
    /\ UNCHANGED <<queue, max_retries, batch_size, pc, batch, gk_client, gk, attempts, held, calls>>
    /\ UNCHANGED <<fanout_vars, purge_vars, store_vars, task, dir_vars>>

\* What the callers of Activity.log in blueprints/tasks.py pass.
\* Activity.get_in_date_range(start_date, end_date): the rows WHERE logged_at
\* >= start_date + "T00:00:00" AND logged_at <= end_date + "T23:59:59" (there
\* are fewer rows than the LIMIT; the claims read the result as a set).
GetInDateRange(start_date, end_date) ==
    /\ last' = [op |-> "get_in_date_range", start_date |-> start_date,
                end_date |-> end_date,
                result |-> {i \in 1..Len(activity_log) :
                              /\ TextLeq(<<start_date, 0>>, activity_log[i].logged_at)
                              /\ TextLeq(activity_log[i].logged_at,
                                         <<end_date, LastSecond>>)}]
    /\ UNCHANGED <<queue, max_retries, batch_size, pc, batch, gk_client, gk, attempts, held, calls>>
    /\ UNCHANGED <<fanout_vars, purge_vars, store_vars, task_vars, dir_vars>>

ActivityLogNext ==
    \E u \in UserIds :
        \/ \E c \in Comments, x \in Contents :
               \/ ActivityLog("commented", u, CommentDetails(c, x))
               \/ ActivityLog("comment_edited", u, CommentDetails(c, x))
        \/ ActivityLog("comment_deleted", u, EmptyDict)
        \/ \E old \in {"new"}, new \in {"on_hold", "complete"} :
               ActivityLog("status_changed", u, StatusDetails(old, new))

\* ------------------------------------------------- routes of the task pages

\* task.owner on a Task object: the dataclass has the fields of TaskFields.
TaskOwnerAttr == IF "owner" \in TaskFields THEN Returned(task_owner)
                 ELSE Raised("AttributeError")

\* change_status after the permission check: can_transition_to, set_status,
\* Activity.log of status_changed.  The task afterwards, the activity logged
\* and whether queue_notifications was called.
ChangeStatusBody(t, new_status) ==
    IF ~CanTransitionTo(t.status, new_status)
    THEN [task |-> t, logged |-> <<>>, notified |-> FALSE]
    ELSE IF SetStatusAllowed(t.status, new_status)
    THEN [task |-> [t EXCEPT !.status = new_status, !.updated_at = @ + 1],
          logged |-> <<StatusDetails(t.status, new_status)>>,
          notified |-> TRUE]
    ELSE [task |-> t, logged |-> <<>>, notified |-> FALSE]

\* change_status posted by actor: "if task.owner != g.user.username and not
\* _is_admin(...): abort(403)", then the body.
ChangeStatus(actor, admin, new_status) ==
    /\ task # NoTaskRow
    /\ task.updated_at < MaxWrites
    /\ Len(activity_log) < MaxActivities
    /\ IF TaskOwnerAttr.raised # ""
       THEN /\ last' = [op |-> "tasks.change_status", new_status |-> new_status,
                        prev |-> task, answer |-> TaskOwnerAttr.raised]
            /\ UNCHANGED <<task, activity_log, queue, attempts>>
       ELSE IF TaskOwnerAttr.value # actor /\ ~admin
       THEN /\ last' = [op |-> "tasks.change_status", new_status |-> new_status,
                        prev |-> task, answer |-> "403"]
            /\ UNCHANGED <<task, activity_log, queue, attempts>>
       ELSE LET body == ChangeStatusBody(task, new_status)
                out == IF body.notified THEN QueueOutcome(FALSE, actor)
                       ELSE Queued(<<>>)
            IN  /\ Len(queue) + Len(out.rows) <= MaxRows
                /\ task' = body.task
                /\ activity_log' =
                       activity_log \o
                       [i \in 1..Len(body.logged) |->
                           [action |-> "status_changed", username |-> actor,
                            details |-> JsonDumps(body.logged[i]),
                            logged_at |-> IsoFormatNow]]
                /\ queue' = queue \o out.rows
                /\ attempts' = attempts \o [k \in 1..Len(out.rows) |-> 0]
                /\ last' = [op |-> "tasks.change_status", new_status |-> new_status,
                            prev |-> task,
                            answer |-> IF out.raised # "" THEN out.raised ELSE "200"]
    /\ UNCHANGED <<max_retries, batch_size, pc, batch, gk_client, gk, held, calls>>
    /\ UNCHANGED <<fanout_vars, purge_vars, store_vars, dir_vars>>

\* can_view_task(task, user): a task that is not private is visible; else
\* the owner is compared first.
CanViewTask(t, user, admin) ==
    IF ~t.is_private THEN Returned(TRUE)
    ELSE IF TaskOwnerAttr.raised # "" THEN Raised(TaskOwnerAttr.raised)
    ELSE Returned(TaskOwnerAttr.value = user \/ admin \/ user \in watchers)

\* watch, posted by user: can_view_task, then TaskWatcher.add(task.id,
\* g.user.username), which leaves an existing row alone.
Watch(user, admin) ==
    /\ task # NoTaskRow
    /\ IF CanViewTask(task, user, admin).raised = "" /\ CanViewTask(task, user, admin).value
       THEN /\ watchers' = watchers \cup {user}
            /\ last' = [op |-> "tasks.watch", user |-> user, answer |-> "200"]
       ELSE /\ watchers' = watchers
            /\ last' = [op |-> "tasks.watch", user |-> user,
                        answer |-> IF CanViewTask(task, user, admin).raised # ""
                                   THEN CanViewTask(task, user, admin).raised ELSE "403"]
    /\ UNCHANGED <<queue, max_retries, batch_size, pc, batch, gk_client, gk, attempts, held, calls>>
    /\ UNCHANGED <<task_owner, users, purge_vars, store_vars, task_vars, dir_vars>>

\* unwatch, posted by user: can_view_task, then TaskWatcher.remove(task.id,
\* g.user.username).
Unwatch(user, admin) ==
    /\ task # NoTaskRow
    /\ IF CanViewTask(task, user, admin).raised = "" /\ CanViewTask(task, user, admin).value
       THEN /\ watchers' = watchers \ {user}
            /\ last' = [op |-> "tasks.unwatch", user |-> user, answer |-> "200"]
       ELSE /\ watchers' = watchers
            /\ last' = [op |-> "tasks.unwatch", user |-> user,
                        answer |-> IF CanViewTask(task, user, admin).raised # ""
                                   THEN CanViewTask(task, user, admin).raised ELSE "403"]
    /\ UNCHANGED <<queue, max_retries, batch_size, pc, batch, gk_client, gk, attempts, held, calls>>
    /\ UNCHANGED <<task_owner, users, purge_vars, store_vars, task_vars, dir_vars>>

\* add_watcher, posted by actor for username: owner or admin only, the
\* user must exist in the directory; then TaskWatcher.add.
AddWatcher(actor, admin, username, known) ==
    /\ task # NoTaskRow
    /\ IF TaskOwnerAttr.raised # ""
       THEN /\ watchers' = watchers
            /\ last' = [op |-> "tasks.add_watcher", user |-> username,
                        answer |-> TaskOwnerAttr.raised]
       ELSE IF TaskOwnerAttr.value # actor /\ ~admin
       THEN /\ watchers' = watchers
            /\ last' = [op |-> "tasks.add_watcher", user |-> username,
                        answer |-> "403"]
       ELSE IF ~known
       THEN /\ watchers' = watchers
            /\ last' = [op |-> "tasks.add_watcher", user |-> username,
                        answer |-> "User not found."]
       ELSE /\ watchers' = watchers \cup {username}
            /\ last' = [op |-> "tasks.add_watcher", user |-> username,
                        answer |-> "200"]
    /\ UNCHANGED <<queue, max_retries, batch_size, pc, batch, gk_client, gk, attempts, held, calls>>
    /\ UNCHANGED <<task_owner, users, purge_vars, store_vars, task_vars, dir_vars>>

\* remove_watcher, posted by actor for username: owner or admin only, "if
\* username == task.owner" refuses; then TaskWatcher.remove.
RemoveWatcher(actor, admin, username) ==
    /\ task # NoTaskRow
    /\ IF TaskOwnerAttr.raised # ""
       THEN /\ watchers' = watchers
            /\ last' = [op |-> "tasks.remove_watcher", user |-> username,
                        answer |-> TaskOwnerAttr.raised]
       ELSE IF TaskOwnerAttr.value # actor /\ ~admin
       THEN /\ watchers' = watchers
            /\ last' = [op |-> "tasks.remove_watcher", user |-> username,
                        answer |-> "403"]
       ELSE IF username = TaskOwnerAttr.value
       THEN /\ watchers' = watchers
            /\ last' = [op |-> "tasks.remove_watcher", user |-> username,
                        answer |-> "Cannot remove the task owner from watchers."]
       ELSE /\ watchers' = watchers \ {username}
            /\ last' = [op |-> "tasks.remove_watcher", user |-> username,
                        answer |-> "200"]
    /\ UNCHANGED <<queue, max_retries, batch_size, pc, batch, gk_client, gk, attempts, held, calls>>
    /\ UNCHANGED <<task_owner, users, purge_vars, store_vars, task_vars, dir_vars>>

\* The rows of activity_log with the given action.
Logged(action) ==
    {i \in 1..Len(activity_log) : activity_log[i].action = action}

\* add_comment, posted by actor: can_view_task; Comment.create;
\* TaskWatcher.add for the commenter; Activity.log of "commented" with the
\* form's skip flag; queue_notifications(activity, task, ...), whose
\* recipients never include the actor.  What was written stays when
\* queue_notifications raises.
AddComment(actor, admin, comment_uuid, content, skip) ==
    /\ task # NoTaskRow
    /\ Len(activity_log) < MaxActivities
    /\ CommentedRows(comment_uuid) = {}
    /\ IF CanViewTask(task, actor, admin).raised # ""
       THEN /\ last' = [op |-> "tasks.add_comment", actor |-> actor, skip |-> skip,
                        before |-> queue, logged |-> FALSE,
                        answer |-> CanViewTask(task, actor, admin).raised]
            /\ UNCHANGED <<watchers, activity_log, queue, attempts>>
       ELSE IF ~CanViewTask(task, actor, admin).value
       THEN /\ last' = [op |-> "tasks.add_comment", actor |-> actor, skip |-> skip,
                        before |-> queue, logged |-> FALSE, answer |-> "403"]
            /\ UNCHANGED <<watchers, activity_log, queue, attempts>>
       ELSE LET out == QueueOutcome(skip, actor)
            IN  /\ Len(queue) + Len(out.rows) <= MaxRows
                /\ watchers' = watchers \cup {actor}
                /\ activity_log' =
                       Append(activity_log,
                              [action |-> "commented", username |-> actor,
                               details |-> JsonDumps(CommentDetails(comment_uuid,
                                                                    content)),
                               logged_at |-> IsoFormatNow])
                /\ queue' = queue \o out.rows
                /\ attempts' = attempts \o [k \in 1..Len(out.rows) |-> 0]
                /\ last' = [op |-> "tasks.add_comment", actor |-> actor,
                            skip |-> skip, before |-> queue, logged |-> TRUE,
                            answer |-> IF out.raised # "" THEN out.raised ELSE "200"]
    /\ UNCHANGED <<max_retries, batch_size, pc, batch, gk_client, gk, held, calls>>
    /\ UNCHANGED <<task_owner, users, task, purge_vars, store_vars, dir_vars>>

\* delete_comment, posted by actor for a comment that exists: admin only;
\* comment.delete(); Activity.log of "comment_deleted", skip_notification left
\* at its default; the route ends without a call of queue_notifications.
DeleteComment(actor, admin) ==
    /\ task # NoTaskRow
    /\ Len(activity_log) < MaxActivities
    /\ Cardinality(Logged("comment_deleted")) < Cardinality(Logged("commented"))
    /\ IF ~admin
       THEN /\ last' = [op |-> "tasks.delete_comment", actor |-> actor,
                        skip |-> FALSE, before |-> queue, logged |-> FALSE,
                        answer |-> "403"]
            /\ UNCHANGED activity_log
       ELSE /\ activity_log' =
                   Append(activity_log,
                          [action |-> "comment_deleted", username |-> actor,
                           details |-> <<>>, logged_at |-> IsoFormatNow])
            /\ last' = [op |-> "tasks.delete_comment", actor |-> actor,
                        skip |-> FALSE, before |-> queue, logged |-> TRUE,
                        answer |-> "200"]
    /\ UNCHANGED <<queue, max_retries, batch_size, pc, batch, gk_client, gk, attempts, held, calls>>
    /\ UNCHANGED <<fanout_vars, task, purge_vars, store_vars, dir_vars>>

\* ------------------------------------------------------- specifications

\* The worker runs with the largest batch size.
FullBatchInit ==
    /\ Init
    /\ batch_size = BatchSize

\* The web application enqueues and the worker delivers.
WorkerSpecNext ==
    \/ EnqueueNext
    \/ WorkerNext

WorkerSpec == Init /\ [][WorkerSpecNext]_vars

\* The same, with the worker loop of run_worker never stopping.
LiveSpec == Init /\ [][WorkerSpecNext]_vars /\ WF_vars(WorkerNext)

\* The web application enqueues and the worker delivers, and the worker
\* process can die between a successful send and the UPDATE that records it.
CrashSpecNext ==
    \/ EnqueueNext
    \/ WorkerNext
    \/ WorkerCrashAfterSend

CrashSpec == Init /\ [][CrashSpecNext]_vars

\* Request handlers that watch and unwatch a task and fan its activity out,
\* next to other enqueues.
FanoutInit ==
    /\ QueueInit
    /\ max_retries = MaxRetriesCeil /\ batch_size = BatchSize
    /\ TaskInit
    /\ PurgeInit
    /\ StoreEmpty
    /\ foreign_keys = FALSE
    /\ TaskEmpty
    /\ DirectoryFixed

FanoutSpec == FanoutInit /\ [][FanoutNext]_vars

\* The web application enqueues, the worker delivers and a caller looks at
\* the head of the queue with get_pending.
FifoSpecNext ==
    \/ EnqueueNext
    \/ WorkerNext
    \/ \E limit \in 0..MaxRows : GetPending(limit)

FifoSpec == Init /\ [][FifoSpecNext]_vars

\* The web application enqueues, the worker delivers, days pass and a
\* maintenance job purges the queue.
PurgeSpecNext ==
    \/ EnqueueNext
    \/ WorkerNext
    \/ Tick
    \/ \E days \in 0..MaxDays : CleanupOld(days)

\* The purge reads a row's status and age only: the worker that makes rows
\* terminal runs with max_retries 1, which fails a row at its first failure.
PurgeRunInit ==
    /\ FullBatchInit
    /\ max_retries = 1

PurgeSpec == PurgeRunInit /\ [][PurgeSpecNext]_vars

\* An empty store; whether foreign keys are enforced is up to the connection.
StoreInit ==
    /\ QueueInit
    /\ max_retries = MaxRetriesCeil /\ batch_size = BatchSize
    /\ NoTask
    /\ PurgeInit
    /\ StoreEmpty
    /\ foreign_keys \in BOOLEAN
    /\ TaskEmpty
    /\ DirectoryFixed

\* Request handlers upload and delete attachments of the same content, their
\* statements interleaved.
StoreNext == \E p \in Procs : StoreStep(p)

StoreSpec == StoreInit /\ [][StoreNext]_vars

\* The queue empty, the worker asleep, the directory and the settings in
\* one of the states an installation can be in.
DeliveryInit ==
    /\ QueueInit
    /\ max_retries = MaxRetriesCeil /\ batch_size = BatchSize
    /\ NoTask
    /\ PurgeInit
    /\ StoreEmpty
    /\ foreign_keys = FALSE
    /\ TaskEmpty
    /\ directory \in [enabled : BOOLEAN, email : {NoAddress, 1},
                      ntfy : {NoAddress, 1}]
    /\ app_setting \in [Channels -> BOOLEAN]

\* The web application enqueues and the worker delivers while the recipient
\* is disabled and enabled again; addresses and settings stay as they are.
ConfigSpecNext ==
    \/ EnqueueNext
    \/ DeliveryNext
    \/ \E enabled \in BOOLEAN : SetEnabled(enabled)

ConfigSpec == DeliveryInit /\ [][ConfigSpecNext]_vars

\* Both servers are configured.
ConfiguredInit ==
    /\ DeliveryInit
    /\ app_setting = [c \in Channels |-> TRUE]

\* The web application enqueues and the worker delivers while the recipient
\* changes address and topic.
AddressSpecNext ==
    \/ EnqueueNext
    \/ DeliveryNext
    \/ \E channel \in Channels, remove \in BOOLEAN : ChangeAddress(channel, remove)

AddressSpec == ConfiguredInit /\ [][AddressSpecNext]_vars

\* The same operations one after the other, by one handler.
SeqStoreNext == StoreStep(1)

SeqStoreSpec == StoreInit /\ [][SeqStoreNext]_vars

\* Request handlers upload, download and delete attachments of the same
\* content, their statements interleaved.
DownloadNext ==
    \/ \E p \in Procs : StoreStep(p)
    \/ \E p \in Procs : DownloadStep(p)

DownloadSpec == StoreInit /\ [][DownloadNext]_vars

\* Uploads run one at a time with nothing next to them; deletes run next to
\* each other, their statements interleaved.
DeleteRaceNext ==
    \/ \E p \in Procs : UploadAloneStep(p)
    \/ \E p \in Procs : DeleteStep(p)

DeleteRaceSpec == StoreInit /\ [][DeleteRaceNext]_vars

\* Request handlers upload and download attachments of the same content,
\* their statements interleaved; nothing is deleted.
UploadReadNext ==
    \/ \E p \in Procs : UploadStep(p)
    \/ \E p \in Procs : DownloadStep(p)

UploadReadSpec == StoreInit /\ [][UploadReadNext]_vars

\* No task yet, nothing logged, the queue empty and its worker asleep.
TaskPagesInit ==
    /\ QueueInit
    /\ max_retries = MaxRetriesCeil /\ batch_size = BatchSize
    /\ NoTask
    /\ PurgeInit
    /\ StoreEmpty
    /\ foreign_keys = FALSE
    /\ TaskEmpty
    /\ DirectoryFixed

\* A task is created, edited and moved between statuses, by callers of the
\* Task model and by the change_status route.
TaskNext ==
    \/ \E title \in Titles, owner_id \in UserIds, due_date \in {NULL, "d1"},
          is_private \in BOOLEAN :
           TaskCreate(title, owner_id, due_date, is_private)
    \/ \E title \in Opt(Titles), due_date \in Opt(DueDates),
          is_private \in Opt(BOOLEAN), owner_id \in Opt(UserIds) :
           TaskUpdate(title, due_date, is_private, owner_id)
    \/ \E new_status \in Targets : TaskSetStatus(new_status)
    \/ \E new_status \in Targets : TaskCanTransitionTo(new_status)
    \/ \E actor \in UserIds, admin \in BOOLEAN, new_status \in Targets :
           ChangeStatus(actor, admin, new_status)

TaskSpec == TaskPagesInit /\ [][TaskNext]_vars

\* Activities are logged and the cached content of a comment is rewritten.
ActivityNext ==
    \/ ActivityLogNext
    \/ \E c \in Comments, x \in Contents : UpdateCommentContent(c, x)

ActivitySpec == TaskPagesInit /\ [][ActivityNext]_vars

\* A task is created and users post to its watch routes.
WatchNext ==
    \/ \E owner_id \in UserIds, is_private \in BOOLEAN :
           TaskCreate("t1", owner_id, NULL, is_private)
    \/ \E user \in UserIds, admin \in BOOLEAN : Watch(user, admin)
    \/ \E user \in UserIds, admin \in BOOLEAN : Unwatch(user, admin)
    \/ \E actor \in UserIds, admin \in BOOLEAN, username \in UserIds,
          known \in BOOLEAN : AddWatcher(actor, admin, username, known)
    \/ \E actor \in UserIds, admin \in BOOLEAN, username \in UserIds :
           RemoveWatcher(actor, admin, username)

WatchSpec == TaskPagesInit /\ [][WatchNext]_vars

\* A task with its owner, watchers to come, every identity in the user table
\* with a push topic, active or not, and nothing logged or queued.
CommentInit ==
    /\ QueueInit
    /\ max_retries = MaxRetriesCeil /\ batch_size = BatchSize
    /\ task_owner \in UserIds
    /\ watchers = {}
    /\ users \in [UserIds -> [is_active : BOOLEAN, ntfy_topic : {TRUE}]]
    /\ PurgeInit
    /\ StoreEmpty
    /\ foreign_keys = FALSE
    /\ task \in {NewTask("t1", NULL, is_private) : is_private \in BOOLEAN}
    /\ activity_log = <<>>
    /\ DirectoryFixed

\* Users watch the task and post to its comment routes.
CommentNext ==
    \/ \E u \in UserIds : TaskWatcherAdd(u)
    \/ \E actor \in UserIds, admin \in BOOLEAN, c \in Comments, x \in Contents,
          skip \in BOOLEAN : AddComment(actor, admin, c, x, skip)
    \/ \E actor \in UserIds, admin \in BOOLEAN : DeleteComment(actor, admin)

CommentSpec == CommentInit /\ [][CommentNext]_vars

\* Activities are logged as time passes and a caller asks for those of a
\* range of days.
RangeNext ==
    \/ \E u \in UserIds : ActivityLog("comment_deleted", u, EmptyDict)
    \/ Second
    \/ \E start_date \in 0..MaxDays, end_date \in 0..MaxDays :
           GetInDateRange(start_date, end_date)

RangeSpec == TaskPagesInit /\ [][RangeNext]_vars

\* Callers of the model API alone, no worker running.
ApiSpec == Init /\ [][ApiNext]_vars

\* Worker iterations with, between them, callers that create a notification
\* and call mark_failed on the object they hold while its counter is below
\* the ceiling of max_retries, as the counter of every pending row is.
RetrySpecNext ==
    \/ WorkerNext
    \/ pc = "sleep" /\ \E u \in Users, c \in Channels : Create(u, c, TRUE)
    \/ pc = "sleep" /\ held # NoObj /\ held.retries < MaxRetriesCeil /\ MarkFailed

RetrySpec == FullBatchInit /\ [][RetrySpecNext]_vars

\* The queue with all that writes the status of its rows: the enqueue, the
\* worker and callers of the model API.
Next ==
    \/ EnqueueNext
    \/ WorkerNext
    \/ ApiNext

Spec == Init /\ [][Next]_vars

\* ----------------------------------------------------------------- claims

Terminal == {"sent", "failed"}

\* The retry transition as the specification words it.
Retried(row, maxr) ==
    [row EXCEPT !.retries = row.retries + 1,
                !.status = IF row.retries + 1 >= maxr THEN "failed" ELSE "pending"]

WorkerFalseOps == {"send_false", "no_address"}
WorkerRaiseOps == {"send_raises", "property_raises"}
RowFailureOps == WorkerFalseOps \cup WorkerRaiseOps \cup {"lookup_raises"}

\* C1: a row's status only moves out of pending; once a row is sent or failed,
\* no enqueue, worker step, mark_sent or mark_failed changes its status again.
C1_TerminalIsFinal ==
    [][\A i \in 1..Len(queue) :
          queue[i].status \in Terminal => queue'[i].status = queue[i].status]_vars

\* C2: with the worker loop running and the gatekeeper client available,
\* every row of the queue eventually becomes sent or failed.
C2_EveryRowTerminates ==
    \A i \in 1..MaxRows :
        (gk_client /\ i <= Len(queue))
            ~> (i <= Len(queue) /\ queue[i].status \in Terminal)

\* C3: after a failure on one row of the batch (a false send, an exception
\* in the send, an exception in the recipient lookup) the rows after it in
\* the batch are still in line to be processed in the same iteration.
C3_FailureKeepsBatch ==
    last.op \in RowFailureOps => batch = last.rest

C5_FailedMeansExhausted ==
    \A i \in Ids : queue[i].status = "failed" => queue[i].retries >= max_retries

\* C5 amended: a failed row has used up its retries, unless the worker failed
\* it for an unknown or disabled recipient, which stamps sent_at and leaves
\* the counter alone.
C5_FailedExhaustedOrSkipped ==
    \A i \in Ids :
        queue[i].status = "failed" =>
            \/ queue[i].retries >= max_retries
            \/ queue[i].sent_at # NULL

\* C5 witness: one row failed by exhausting its retries, another failed for
\* its recipient with retries to spare.
C5_Witness ==
    /\ \E i \in Ids : /\ queue[i].status = "failed" /\ queue[i].sent_at = NULL
                      /\ queue[i].retries = max_retries
    /\ \E j \in Ids : /\ queue[j].status = "failed" /\ queue[j].sent_at # NULL
                      /\ queue[j].retries < max_retries

\* C6: no step lowers the stored retry counter of a row.
C6_RetriesNeverDecrease ==
    [][\A i \in 1..Len(queue) : queue'[i].retries >= queue[i].retries]_vars

\* C7: on the object Notification.create returned, after k consecutive
\* mark_failed(max_retries) calls the status is pending while k < max_retries
\* and failed from k = max_retries on, in the object and in the row just written.
C7_RetryIdempotence ==
    calls >= 0 =>
        /\ held.status = IF calls >= max_retries THEN "failed" ELSE "pending"
        /\ held.retries = calls
        /\ last.op = "mark_failed" =>
              /\ queue[held.id].status = held.status
              /\ queue[held.id].retries = calls

\* C7 witness: max_retries = 2 and a third mark_failed call on a row that was
\* already failed.
C7_Witness ==
    /\ max_retries = 2 /\ calls = 3 /\ last.op = "mark_failed"
    /\ last.prev.status = "failed" /\ queue[held.id].status = "failed"

\* C8: a row is handed to a channel sender at most max_retries times; as long
\* as no send succeeded every attempt was counted as a retry, the row is
\* pending below max_retries and failed once the counter reaches it.
C8_AttemptsBounded ==
    \A i \in Ids :
        /\ attempts[i] <= max_retries
        /\ queue[i].status # "sent" => attempts[i] <= queue[i].retries
        /\ queue[i].status = "pending" => queue[i].retries < max_retries
        /\ queue[i].retries >= max_retries => queue[i].status = "failed"

\* C8 witness: a row attempted max_retries = 2 times, every send failing.
C8_Witness ==
    /\ max_retries = 2
    /\ \E i \in Ids : /\ attempts[i] = 2 /\ queue[i].retries = 2
                      /\ queue[i].status = "failed"

\* C9 as claimed: a row whose recipient has no email address or no ntfy
\* topic is failed in that iteration.
C9_NoAddressFailsAtOnce ==
    last.op = "no_address" => queue[last.id].status = "failed"

\* C9 amended: such a row is not sent; it takes the ordinary retry
\* transition, failed only when the incremented counter reaches max_retries.
C9_NoAddressIsRetried ==
    last.op = "no_address" =>
        /\ queue[last.id] = Retried(last.prev, max_retries)
        /\ attempts[last.id] = last.att
        /\ batch = last.rest

\* C9 witness: a row without address stays pending for another iteration.
C9_Witness ==
    /\ last.op = "no_address" /\ last.prev.retries = 0
    /\ queue[last.id].status = "pending" /\ queue[last.id].retries = 1

\* C10: an exception in the send changes the row exactly as a false answer
\* does (retries + 1; pending below max_retries, else failed), and the
\* worker goes on with the rest of the batch.
C10_ExceptionLikeFalse ==
    last.op \in WorkerRaiseOps =>
        /\ queue = SetStatusRetries([queue EXCEPT ![last.id] = last.prev], last.id,
                                    WorkerFailUpdate(last.r, max_retries))
        /\ queue[last.id] = Retried(last.prev, max_retries)
        /\ pc = "loop"
        /\ batch = last.rest

\* C10 witness: the send of the first of two fetched rows raised; the row is
\* pending with one retry and the second row is next.
C10_Witness ==
    /\ last.op = "send_raises" /\ Len(last.rest) = 1
    /\ queue[last.id].status = "pending" /\ queue[last.id].retries = 1
    /\ pc = "loop" /\ Len(batch) = 1
\* C11: the worker sets a row to sent only in the step in which a channel
\* send for that row answered success, so a sent row was delivered at least
\* once; after a crash between a successful send and the UPDATE the row is
\* unchanged and pending, and the next fetch of the restarted worker takes it.
C11_SentOnlyAfterSuccess ==
    [][/\ \A i \in 1..Len(queue) :
             (queue[i].status # "sent" /\ queue'[i].status = "sent")
                 => /\ last'.op = "send_ok" /\ last'.id = i
                    /\ attempts'[i] = attempts[i] + 1
       /\ \A i \in 1..Len(queue') : queue'[i].status = "sent" => attempts'[i] >= 1
       /\ last'.op = "crash_after_send"
             => /\ queue'[last'.id] = last'.prev
                /\ queue'[last'.id].status = "pending"
                /\ pc' = "sleep"
                /\ \E k \in 1..Len(FetchPending(batch_size)') :
                       FetchPending(batch_size)'[k].id = last'.id]_vars

\* A row that is sent with no failure counted and two calls of its sender:
\* one send was lost to a crash and the row was delivered twice.
C11_Witness ==
    \E i \in 1..Len(queue) :
        /\ queue[i].status = "sent"
        /\ queue[i].retries = 0
        /\ attempts[i] = 2

\* C12: every row inserted by Notification.create starts pending with
\* retries 0 and no sent timestamp, and so does the object create returns.
C12_CreatedRowIsPending ==
    last.op = "create" =>
        /\ queue[last.id].status = "pending"
        /\ queue[last.id].retries = 0
        /\ queue[last.id].sent_at = NULL
        /\ held = [id |-> last.id, status |-> "pending", retries |-> 0]

\* A second row is created after the first one has been failed.
C12_Witness ==
    /\ last.op = "create" /\ last.id = 2
    /\ queue[1].status = "failed"
    /\ queue[2].channel = "ntfy"

\* The recipients the fan-out is specified to resolve for an actor.
Resolved(actor) ==
    {u \in (({task_owner} \cup watchers) \ {actor}) :
        u \in DOMAIN users /\ users[u].is_active}

\* The rows of the queue that the last queue_notifications call added.
Added == SubSeq(queue, Len(last.before) + 1, Len(queue))
AddedFor(u, channel) ==
    Len(SelectSeq(Added, LAMBDA row : row.username = u /\ row.channel = channel))

\* C13: queue_notifications on an activity with skip_notification set returns
\* 0 and leaves the queue as it was, whatever the owner, the watchers and
\* the users' settings are.
C13_SkipQueuesNothing ==
    (last.op = "queue_notifications" /\ last.skip) =>
        /\ last.raised = ""
        /\ last.count = 0
        /\ queue = last.before

\* A skipped activity of another user on a task whose owner is active and has
\* a push topic, with a watcher, and rows already in the queue.
C13_Witness ==
    /\ last.op = "queue_notifications" /\ last.skip
    /\ last.actor # task_owner
    /\ task_owner \in DOMAIN users
    /\ users[task_owner].is_active /\ users[task_owner].ntfy_topic
    /\ last.actor \in UserIds
    /\ watchers \ {last.actor, task_owner} # {}
    /\ queue # <<>>

\* C14: get_recipients resolves a recipient set without the actor, and
\* queue_notifications creates no row for the actor; with owner 1, watchers 2
\* and 3, all active, and actor 2 the recipients are exactly {1, 3}.
C14_ActorNeverRecipient ==
    /\ last.op = "get_recipients" =>
          /\ last.raised = ""
          /\ last.actor \notin last.value
          /\ ( /\ task_owner = 1 /\ watchers = {2, 3} /\ last.actor = 2
               /\ \A u \in UserIds : u \in DOMAIN users /\ users[u].is_active )
                  => last.value = {1, 3}
    /\ last.op = "queue_notifications" =>
          /\ last.raised = ""
          /\ \A c \in Channels : AddedFor(last.actor, c) = 0

\* C15: get_recipients returns exactly ({owner} union watchers) minus the
\* actor minus the identities that are unknown or inactive.
C15_RecipientsExact ==
    last.op = "get_recipients" =>
        /\ last.raised = ""
        /\ last.value = Resolved(last.actor)

\* C16: for an activity that is not skipped, queue_notifications inserts for
\* each resolved recipient one push row iff it has a push topic and at most
\* one email row, inserts nothing for anyone else, and returns the number of
\* rows inserted.
C16_OneRowPerChannel ==
    (last.op = "queue_notifications" /\ ~last.skip) =>
        /\ last.raised = ""
        /\ last.count = Len(Added)
        /\ \A u \in Resolved(last.actor) :
              /\ AddedFor(u, "ntfy") = (IF users[u].ntfy_topic THEN 1 ELSE 0)
              /\ AddedFor(u, "email") <= 1
        /\ \A u \in UserIds \ Resolved(last.actor) :
              \A c \in Channels : AddedFor(u, c) = 0

\* b is the first `limit` pending rows of q, oldest first: only pending rows,
\* at most limit, in creation order, and no pending row left out is older
\* than a row taken or left out while there was room.
OldestPending(b, limit, q, gone) ==
    /\ Len(b) <= limit
    /\ \A k \in 1..Len(b) :
          /\ b[k].id \in (1..Len(q)) \ gone
          /\ q[b[k].id].status = "pending"
    /\ \A k \in 1..(Len(b) - 1) : b[k].id < b[k + 1].id
    /\ \A i \in (1..Len(q)) \ gone :
          (q[i].status = "pending" /\ \A k \in 1..Len(b) : b[k].id # i)
              => /\ Len(b) = limit
                 /\ \A k \in 1..Len(b) : b[k].id < i

WorkerRowOps ==
    {"send_ok", "send_false", "send_raises", "no_address", "property_raises",
     "skip_user"}

\* C17: get_pending and the worker's SELECT return only pending rows, at most
\* limit, oldest first; the worker takes the rows of its batch from the head,
\* so when it handles a row, no older row is pending without having had its
\* turn.
C17_FifoDequeue ==
    [][/\ last'.op = "get_pending"
             => OldestPending(last'.result, last'.limit, queue', removed')
       /\ last'.op = "fetch"
             => OldestPending(batch', batch_size', queue', removed')
       /\ (pc = "loop" /\ batch # <<>> /\ batch' # batch)
             => /\ last'.id = Head(batch).id
                /\ batch' \in {Tail(batch), <<>>}
       /\ last'.op \in WorkerRowOps
             => \A j \in 1..(last'.id - 1) :
                    queue'[j].status = "pending" => queue'[j].retries >= 1]_vars

\* The limit cuts the batch: with batch_size 1 and two pending rows the
\* worker fetches the older one, which has failed before, and not the newer.
C17_Witness ==
    /\ last.op = "fetch" /\ batch_size = 1
    /\ Len(queue) = 2
    /\ queue[1].status = "pending" /\ queue[1].retries = 1
    /\ queue[2].status = "pending" /\ queue[2].retries = 0
    /\ Len(batch) = 1 /\ batch[1].id = 1

\* C18: cleanup_old(days) deletes exactly the rows that are sent or failed
\* and older than days, deletes no pending row, changes no row that stays,
\* and returns the number of rows it deleted.
C18_PurgeExactlyOldTerminal ==
    /\ \A i \in removed : queue[i].status \in Terminal
    /\ last.op = "cleanup_old" =>
          /\ removed \ last.before =
                {i \in Ids \ last.before :
                    /\ queue[i].status \in Terminal
                    /\ clock - queue[i].created_at > last.days}
          /\ last.before \subseteq removed
          /\ last.result = Cardinality(removed \ last.before)
          /\ queue = last.rows

\* One purge deletes a terminal row and keeps a pending row of the same age.
C18_Witness ==
    /\ last.op = "cleanup_old" /\ last.result = 1
    /\ \E i \in Ids \ removed, j \in removed \ last.before :
          /\ queue[i].status = "pending"
          /\ queue[i].created_at = queue[j].created_at
          /\ clock - queue[i].created_at > last.days

\* C19: whatever the interleaving of uploads and deletes of the same content
\* was, once no handler is in the middle of one, every attachment row
\* references a blob row that exists and whose file is on disk.
C19_AttachmentHasBlob ==
    (\A p \in Procs : proc[p] = Idle) =>
        \A i \in 1..Len(attachment) :
            attachment[i].live =>
                /\ attachment[i].file_blob_id \in LiveBlobs
                /\ disk

\* C20: executed one after the other, delete_attachment deletes the
\* attachment row, and removes the blob's file and row if and only if no
\* other attachment references the blob.
C20_BlobRemovedIffLastReference ==
    last.op = "delete_attachment" =>
        /\ ~attachment[last.att].live
        /\ last.blob # NoBlob
        /\ Refs(last.blob) = {} <=> last.blob \notin LiveBlobs
        /\ Refs(last.blob) = {} <=> ~disk

\* Two attachments on one blob, both deleted: the second delete removed the
\* blob's row and file.
C20_Witness ==
    /\ last.op = "delete_attachment"
    /\ last.blob \notin LiveBlobs /\ ~disk
    /\ \E i \in 1..Len(attachment) :
          /\ i # last.att
          /\ attachment[i] = [file_blob_id |-> last.blob, live |-> FALSE]

\* C21: with the handlers running one after the other, an upload that finds
\* a blob row of its content takes that row (created false) and changes no
\* blob row and no file; an upload creates the blob exactly when no
\* attachment references one yet; every completed upload appends its own
\* attachment row and leaves one blob row with its file on disk; as long as
\* nothing was deleted all attachments reference the one blob row.
C21_SequentialPutDedup ==
    [][/\ (last'.op = "get_by_hash" /\ LiveBlobs # {})
             => /\ proc'[last'.p].pc = "attach"
                /\ proc'[last'.p].blob \in LiveBlobs
                /\ ~proc'[last'.p].created
                /\ UNCHANGED <<file_blob, disk, attachment>>
       /\ last'.op = "save_uploaded_file"
             => /\ attachment' = Append(attachment, [file_blob_id |-> last'.blob,
                                                     live |-> TRUE])
                /\ last'.att = Len(attachment')
                /\ last'.created <=> Refs(last'.blob) = {}
                /\ ~last'.created => UNCHANGED <<file_blob, disk>>
                /\ LiveBlobs' = {last'.blob}
                /\ disk'
       /\ (\A i \in 1..Len(attachment') : attachment'[i].live)
             => /\ Len(file_blob') <= 1
                /\ \A i \in 1..Len(attachment') : attachment'[i].file_blob_id = 1]_vars

\* Two uploads and no delete: the second one found the blob of the first.
C21_Witness ==
    /\ last.op = "save_uploaded_file" /\ ~last.created /\ last.att = 2
    /\ attachment[1].live /\ attachment[2].live
    /\ attachment[1].file_blob_id = attachment[2].file_blob_id
    /\ Len(file_blob) = 1 /\ disk

\* C22: when uploaders of the same content race past the existence check,
\* there is never more than one blob row of that hash, and no upload is lost
\* to the refused INSERT: each one completes with its attachment on that row.
C22_RacingUploadsShareBlob ==
    /\ Cardinality(LiveBlobs) <= 1
    /\ ~(last.op = "save_raised" /\ last.at = "FileBlob.create")

\* C23: a download of an attachment ends with the content or with not
\* found, never with an exception of the read; when the file was missing at
\* the check it ends with not found.
C23_ReadNeverRaises ==
    last.op = "download_attachment" => last.result \in {"200", "404"}

\* The handler is between its count of 0 and the end of delete_attachment.
InRemoval(r) == r.pc \in {"exists", "unlink", "delete_blob"}

\* C24: a delete passes its count only when no attachment row references the
\* blob any more, and two deletes are in the removal of one blob together
\* only when the attachment rows of both are deleted: neither count is held
\* back by the other handler, so the double removal can happen.
C24_DoubleDeleteAfterZeroCount ==
    [][/\ last'.op = "count"
             => /\ Refs(proc[last'.p].blob) = {}
                /\ InRemoval(proc'[last'.p])
       /\ \A p, q \in Procs :
             (p # q /\ InRemoval(proc'[p]) /\ InRemoval(proc'[q])
                    /\ proc'[p].blob = proc'[q].blob)
                 => /\ ~attachment'[proc'[p].att].live
                    /\ ~attachment'[proc'[q].att].live]_vars

\* Both handlers deleted one of the last two attachments of a blob, both
\* counted 0 and both are at the DELETE of the same blob row.
C24_Witness ==
    /\ proc[1].pc = "delete_blob" /\ proc[2].pc = "delete_blob"
    /\ proc[1].blob = proc[2].blob
    /\ {proc[1].att, proc[2].att} = {1, 2}
    /\ Refs(proc[1].blob) = {}
    /\ ~disk

\* The pairs the transition table is said to accept.
Edges ==
    {<<"new", "in_progress">>, <<"new", "on_hold">>, <<"new", "complete">>,
     <<"in_progress", "on_hold">>, <<"in_progress", "complete">>,
     <<"on_hold", "in_progress">>, <<"on_hold", "complete">>,
     <<"complete", "in_progress">>}

\* C25: can_transition_to(from, to) is true exactly for the listed pairs:
\* for every from and to, inside the fixed set or not, and in every call a
\* task of any reached status answers.
C25_TransitionTable ==
    /\ \A from \in Targets, to \in Targets :
           CanTransitionTo(from, to) <=> <<from, to>> \in Edges
    /\ \A s \in Targets : ~CanTransitionTo(s, s)
    /\ last.op = "can_transition_to"
          => (last.result <=> <<last.from, last.to>> \in Edges)

\* A task that was put on hold is asked for the way back to new.
C25_Witness ==
    /\ last.op = "can_transition_to"
    /\ last.from = "on_hold" /\ last.to = "new" /\ ~last.result
    /\ task.status = "on_hold" /\ task.updated_at = 1

\* The pairs of statuses can_transition_to accepts.
Accepted ==
    {e \in Targets \X Targets : CanTransitionTo(e[1], e[2])}

\* C26 as claimed: the transition table a task is moved by accepts exactly
\* 7 pairs.
C26_SevenEdges == task # NoTaskRow => Cardinality(Accepted) = 7

\* C26 amended: the transition table accepts exactly 8 pairs, the ones
\* listed, and set_status changes a status along such a pair only.
C26_EightEdges ==
    /\ task # NoTaskRow => Cardinality(Accepted) = 8
    /\ Accepted = Edges
    /\ (last.op = "set_status" /\ last.result)
          => <<last.prev.status, task.status>> \in Accepted

\* A complete task has been reopened: the eighth pair.
C26_Witness ==
    /\ last.op = "set_status" /\ last.result
    /\ last.prev.status = "complete" /\ task.status = "in_progress"

\* C27: set_status(to) answers true exactly when can_transition_to(to)
\* holds, and then stores the status with a new updated_at; else it answers
\* false and the row is as before.  For a target that is refused the body of
\* change_status changes nothing, logs no activity and queues nothing.
C27_SetStatusFollowsTable ==
    /\ last.op = "set_status"
          => /\ last.result = CanTransitionTo(last.prev.status, last.new_status)
             /\ last.result
                   => task = [last.prev EXCEPT !.status = last.new_status,
                                               !.updated_at = @ + 1]
             /\ ~last.result => task = last.prev
    /\ task # NoTaskRow
          => \A to \in Targets :
                 ~CanTransitionTo(task.status, to)
                     => ChangeStatusBody(task, to)
                            = [task |-> task, logged |-> <<>>, notified |-> FALSE]
    /\ (last.op = "tasks.change_status"
            /\ ~CanTransitionTo(last.prev.status, last.new_status))
          => /\ task = last.prev
             /\ activity_log = <<>>
             /\ queue = <<>>

\* set_status refused the way from on_hold back to new on a task that had
\* been written before.
C27_Witness ==
    /\ last.op = "set_status" /\ ~last.result
    /\ last.prev.status = "on_hold" /\ last.new_status = "new"
    /\ task.status = "on_hold" /\ task.updated_at = 1

\* C28: the status of a task is always one of new, in_progress, on_hold and
\* complete, whatever targets were asked for, and Task.update leaves it as
\* it was.
C28_StatusInFixedSet ==
    /\ task # NoTaskRow
          => task.status \in {"new", "in_progress", "on_hold", "complete"}
    /\ last.op = "Task.update" => task.status = last.prev.status

\* An update that changed title and owner of a complete task.
C28_Witness ==
    /\ last.op = "Task.update"
    /\ Has(last.updates, "title") /\ Has(last.updates, "owner_id")
    /\ task.status = "complete"
    /\ task.updated_at = 2

\* The rows of a log that are commented activities of a comment.
CommentedOf(log, c) ==
    {i \in 1..Len(log) :
        /\ log[i].action = "commented"
        /\ \E n \in 1..Len(log[i].details) :
               log[i].details[n] = <<"comment_uuid", c>>}

\* C29: update_comment_content answers true exactly when a commented
\* activity references the comment; there is one such row, and of it only
\* the value of the content member of details changes, to the new content;
\* every other row is as before, and so is the whole log when it answers
\* false.
C29_OnlyContentChanges ==
    last.op = "update_comment_content" =>
        LET before == last.before
            rows == CommentedOf(before, last.comment_uuid)
        IN  /\ last.result <=> rows # {}
            /\ ~last.result => activity_log = before
            /\ last.result =>
                  /\ rows = {last.id}
                  /\ Len(activity_log) = Len(before)
                  /\ \A j \in 1..Len(before) :
                         j # last.id => activity_log[j] = before[j]
                  /\ activity_log[last.id].action = before[last.id].action
                  /\ activity_log[last.id].username = before[last.id].username
                  /\ Len(activity_log[last.id].details) = Len(before[last.id].details)
                  /\ \A n \in 1..Len(before[last.id].details) :
                         LET old == before[last.id].details[n]
                             new == activity_log[last.id].details[n]
                         IN  /\ new[1] = old[1]
                             /\ new[2] = IF old[1] = "content" THEN last.content
                                         ELSE old[2]
                  /\ \E n \in 1..Len(before[last.id].details) :
                         before[last.id].details[n][1] = "content"

\* The content of the second of two comments was rewritten.
C29_Witness ==
    /\ last.op = "update_comment_content" /\ last.result /\ last.id = 2
    /\ last.before[1].action = "commented"
    /\ activity_log[2].details # last.before[2].details
    /\ activity_log[1] = last.before[1]

\* C30: no step takes the task owner out of the watchers of the task.
C30_OwnerStaysWatcher ==
    [][(task_owner \in watchers /\ task_owner' = task_owner)
           => task_owner \in watchers']_vars

\* A step of the worker that called the channel sender.
SendOps == {"send_ok", "send_false", "send_raises"}

\* C31: while the server of a channel is not configured, no row of that channel
\* is ever sent; every call of its sender fails and takes the retry update
\* (the counter one higher, pending below max_retries and failed at it, no sent
\* timestamp); each call has consumed one retry, so that the row is failed
\* once max_retries calls were made, and a row failed by the retry path has
\* exactly max_retries retries.
C31_UnconfiguredFollowsRetryPath ==
    /\ \A i \in Ids :
         ~app_setting[queue[i].channel] =>
           /\ queue[i].status # "sent"
           /\ attempts[i] <= queue[i].retries
           /\ attempts[i] <= max_retries
           /\ attempts[i] = max_retries => queue[i].status = "failed"
           /\ (queue[i].status = "failed" /\ queue[i].sent_at = NULL)
                => queue[i].retries = max_retries
    /\ (last.op \in SendOps /\ ~app_setting[last.prev.channel]) =>
           /\ last.op # "send_ok"
           /\ queue[last.id].retries = last.prev.retries + 1
           /\ queue[last.id].status =
                (IF last.prev.retries + 1 < max_retries THEN "pending" ELSE "failed")
           /\ queue[last.id].sent_at = NULL

\* A row of an unconfigured channel failed by its max_retries-th sender call.
C31_Witness ==
    /\ last.op = "send_false"
    /\ ~app_setting[last.prev.channel]
    /\ last.prev.channel = "email"
    /\ attempts[last.id] = max_retries
    /\ max_retries = MaxRetriesCeil
    /\ queue[last.id].status = "failed"

\* C32: every call of a channel sender is made with the address (email) or
\* topic (ntfy) the directory holds for the recipient at the step that
\* processes the row; when the recipient took that address after the row was
\* enqueued, the call uses it and not an address the recipient had before.
C32_AddressReadAtDelivery ==
    [][\A i \in Ids :
         attempts'[i] = attempts[i] + 1 =>
           /\ last'.id = i
           /\ last'.to = directory[queue[i].channel]
           /\ last'.to # NoAddress
           /\ directory[queue[i].channel] > i => last'.to > i]_vars

\* An email was sent to an address the recipient took after the row was
\* enqueued.
C32_Witness ==
    /\ last.op = "send_ok"
    /\ last.prev.channel = "email"
    /\ last.to > last.id
    /\ queue[last.id].status = "sent"

\* C37: the channel sender is never called for a row while the directory has
\* its recipient unknown or disabled; the step of the worker that processes
\* such a row sets it to failed and leaves its retry counter and every count
\* of sender calls as they were.
C37_NoSendToDisabled ==
    [][/\ (\E i \in Ids : attempts'[i] > attempts[i]) => directory.enabled
       /\ (InLoop /\ gk /\ ~directory.enabled /\ batch' = Tail(batch) /\ pc' = pc) =>
            /\ last'.op = "skip_user"
            /\ \A i \in Ids : attempts'[i] = attempts[i]
            /\ queue'[Head(batch).id].status = "failed"
            /\ queue'[Head(batch).id].retries = queue[Head(batch).id].retries]_vars

\* A row that was tried once while its recipient was enabled is failed, its
\* one retry kept, when the worker finds the recipient disabled.
C37_Witness ==
    /\ last.op = "skip_user"
    /\ ~directory.enabled
    /\ attempts[last.id] = 1
    /\ last.prev.retries = 1
    /\ queue[last.id].retries = 1
    /\ queue[last.id].status = "failed"

\* C35: in every state of the queue a row has a sent timestamp exactly when
\* its status is sent.
C35_SentAtOnlyOnSent ==
    \A i \in Ids : (queue[i].sent_at # NULL) <=> (queue[i].status = "sent")

\* What does hold of the sent timestamp: every sent row has one and no pending
\* row has one; a failed row has one exactly when the worker failed it for an
\* unknown or disabled recipient, which happens before its retries are used
\* up.
SentAtOnSentOrSkipped ==
    \A i \in Ids :
        /\ queue[i].status = "sent" => queue[i].sent_at # NULL
        /\ queue[i].status = "pending" => queue[i].sent_at = NULL
        /\ (queue[i].status = "failed" /\ queue[i].sent_at # NULL)
             => queue[i].retries < max_retries
        /\ (last.op = "skip_user" /\ last.id = i)
             => (queue[i].status = "failed" /\ queue[i].sent_at # NULL)

\* C36: with one worker that does not crash, a sender call that succeeds is
\* made for a pending row only and leaves the row sent in the same step; a
\* sent row stays as it is and is in no batch the worker holds or fetches, so
\* that no row is sent successfully twice.
C36_SentOnce ==
    [][/\ \A i \in Ids :
            /\ (attempts'[i] = attempts[i] + 1 /\ last'.op = "send_ok") =>
                 (queue[i].status = "pending" /\ queue'[i].status = "sent")
            /\ queue[i].status = "sent" => queue'[i] = queue[i]
       /\ \A k \in DOMAIN batch' : queue'[batch'[k].id].status = "pending"]_vars

\* The worker fetches again after a successful send: the sent row is not in
\* the batch, the row enqueued after it is.
C36_Witness ==
    /\ last.op = "fetch"
    /\ Len(queue) = 2
    /\ queue[1].status = "sent"
    /\ attempts[1] = 1
    /\ Len(batch) = 1
    /\ batch[1].id = 2

\* C40: while an iteration of the worker runs without a directory client, no
\* step changes a row of the queue (status, retries and sent timestamp all
\* kept) or calls a sender; the worker's only steps are the break at the first
\* row of the batch and the return from an empty batch.
C40_NoClientNoChange ==
    [][(pc = "loop" /\ ~gk) =>
         /\ \A i \in Ids : queue'[i] = queue[i] /\ attempts'[i] = attempts[i]
         /\ last'.op \notin SendOps
         /\ (pc' # pc \/ batch' # batch) =>
              (last'.op \in {"break", "return"} /\ pc' = "sleep" /\ batch' = <<>>)]_vars

\* The worker fetched two pending rows without a client and left the loop:
\* both rows are as enqueued.
C40_Witness ==
    /\ last.op = "break"
    /\ Len(last.rest) = 1
    /\ ~gk
    /\ \A i \in Ids : queue[i] = NewRow(queue[i].username, queue[i].channel)
    /\ \A i \in Ids : attempts[i] = 0

\* C38: with no delete at all, every download of an attachment that
\* save_uploaded_file returned answers with the content.
C38_ReturnedAttachmentReadable ==
    last.op = "download_attachment" => last.result = "200"

\* C39: with deletes racing each other and no upload next to them, whenever
\* every handler has finished, each blob row still there is referenced by an
\* attachment, and the file is on disk only if a blob row is there.
C39_NoLeakAfterDeletes ==
    (\A p \in Procs : proc[p] = Idle) =>
        /\ \A b \in LiveBlobs : Refs(b) # {}
        /\ disk => LiveBlobs # {}

\* Two deletes of the last attachments raced: the unlink of one found the file
\* already removed by the other; both have finished, and no attachment, blob
\* row or file is left.
C39_Witness ==
    /\ last.op = "delete_raised"
    /\ \A p \in Procs : proc[p] = Idle
    /\ Len(attachment) >= 2
    /\ \A a \in 1..Len(attachment) : ~attachment[a].live
    /\ LiveBlobs = {}
    /\ ~disk

\* C33: every activity that a comment route logs with the skip flag unset goes
\* through queue_notifications without an exception and leaves, for each
\* resolved recipient, one push row iff the recipient has a push topic and at
\* most one email row.
C33_LoggedActivityFansOut ==
    (last.op \in {"tasks.add_comment", "tasks.delete_comment"}
        /\ last.logged /\ ~last.skip) =>
        /\ last.answer = "200"
        /\ \A u \in Resolved(last.actor) :
              /\ AddedFor(u, "ntfy") = (IF users[u].ntfy_topic THEN 1 ELSE 0)
              /\ AddedFor(u, "email") <= 1

\* The same for the route that deletes a comment alone.
DeleteCommentFansOut ==
    (last.op = "tasks.delete_comment" /\ last.logged) =>
        \A u \in Resolved(last.actor) :
            AddedFor(u, "ntfy") = (IF users[u].ntfy_topic THEN 1 ELSE 0)

\* C34: get_in_date_range(start, end) returns exactly the activities logged
\* on a day from start through end, whatever the second of the day, the last
\* second of the end day included.
C34_WholeDaysInclusive ==
    last.op = "get_in_date_range" =>
        last.result =
            {i \in 1..Len(activity_log) :
                /\ last.start_date <= activity_log[i].logged_at[1]
                /\ activity_log[i].logged_at[1] <= last.end_date}

\* What does hold: the result is exact but for the activities logged in the
\* last second of the end day, which are left out.
RangeButLastSecond ==
    last.op = "get_in_date_range" =>
        last.result =
            {i \in 1..Len(activity_log) :
                /\ last.start_date <= activity_log[i].logged_at[1]
                /\ activity_log[i].logged_at[1] <= last.end_date
                /\ ~ ( /\ activity_log[i].logged_at[1] = last.end_date
                       /\ activity_log[i].logged_at[2] = LastSecond )}

====
